---- MODULE Spec2Model ----
(***************************************************************************)
(* State-machine model of the hame-relay forwarding engine                 *)
(* (src/src/mqtt_forwarder.ts, class MQTTForwarder).                       *)
(*                                                                         *)
(* A topic string  <prefix><type>/<role>/<identifier>/ctrl  is modelled as *)
(* the sequence of its segments <<prefix, type, role, identifier, "ctrl">>;*)
(* a payload is a sequence of characters; Date.now() is the variable now.  *)
(***************************************************************************)
EXTENDS Integers, Sequences, FiniteSets, TLC

(***************************************************************************)
(* Bounds of the model.                                                    *)
(***************************************************************************)
MaxMsgs == 3
StartTime == 1
MaxConnects == 2

(***************************************************************************)
(* Program constants.                                                      *)
(***************************************************************************)
MESSAGE_HISTORY_TIMEOUT == 1000
RATE_LIMIT_INTERVAL == 59900
RATE_LIMITED_CODES == {1, 13, 15, 16, 21, 26, 28, 30}
\* Values the constructor may draw for INSTANCE_ID (8 hex characters).
InstanceIds == {"a1b2c3d4", "deadbeef"}
DEFAULT_TOPIC_PREFIX == "hame_energy/"

\* The value of an optional field that is not set (undefined in the source).
\* Optional booleans are one of "true", "false" and Undefined.
Undefined == "undefined"

\* The two client connections of a forwarder.
configBroker == "configBroker"
remoteBroker == "remoteBroker"
Brokers == {configBroker, remoteBroker}

(***************************************************************************)
(* Forwarder configurations (ForwarderConfig): the device list bound to    *)
(* the forwarder, the fallback inverse_forwarding flag and the prefixes of *)
(* the broker definition.                                                  *)
(***************************************************************************)
DeviceA ==
  [device_id |-> "id-A", mac |-> "aabbccddeeff", type |-> "HMA-1",
   remote_id |-> "rid-A", inverse_forwarding |-> Undefined,
   use_remote_topic_id |-> "false"]

DeviceG ==
  [device_id |-> "id-G", mac |-> "112233445566", type |-> "HMG-50",
   remote_id |-> "rid-G", inverse_forwarding |-> "true",
   use_remote_topic_id |-> "true"]

DeviceB ==
  [device_id |-> "id-B", mac |-> "a0b0c0d0e0f0", type |-> "HMB-1",
   remote_id |-> "rid-B", inverse_forwarding |-> "false",
   use_remote_topic_id |-> Undefined]

\* The forwarders the model constructs: a configuration and the tag its
\* constructor drew.
Constructions ==
  { [config |->
       [devices |-> <<DeviceA, DeviceG>>, inverse_forwarding |-> Undefined,
        remote |-> [topic_prefix |-> Undefined,
                    local_topic_prefix |-> Undefined]],
     id |-> "a1b2c3d4"],
    [config |->
       [devices |-> <<DeviceB, DeviceA>>, inverse_forwarding |-> "true",
        remote |-> [topic_prefix |-> "marstek_energy/",
                    local_topic_prefix |-> "hame_energy/"]],
     id |-> "deadbeef"] }

VARIABLES
  config,               \* the ForwarderConfig given to the constructor
  INSTANCE_ID,          \* the forwarder's instance tag
  now,                  \* Date.now()
  appMessageHistory,    \* Map deviceKey -> time
  rateLimitedMessages,  \* Map rateLimitKey -> time
  processedMessages,    \* Map hash -> time (never written by the source)
  subscriptions,        \* per broker, the topic list passed to subscribe()
  published,            \* the publish() calls issued so far, in order
  last,                 \* the message handled last and what became of it
  responses,            \* per deviceKey, the device messages forwarded since
                        \* the last App message that was recorded for it
  nrecv,                \* number of messages handled so far
  conn,                 \* the two client sessions: library status, the
                        \* subscribe() calls and "message" listeners the
                        \* forwarder registered, listener calls still to run
  boot,                 \* the run of start() in main.ts
  api,                  \* the run of HameApi.fetchDevices and its retries
  probe                 \* a call of a pure helper: arguments and result

vars == <<config, INSTANCE_ID, now, appMessageHistory, rateLimitedMessages,
          processedMessages, subscriptions, published, last, responses,
          nrecv, conn, boot, api, probe>>

(***************************************************************************)
(* JavaScript helpers.                                                     *)
(***************************************************************************)
\* a ?? b
Coalesce(a, b) == IF a = Undefined THEN b ELSE a

\* a || b on strings (an unset or empty string is falsy)
OrElse(a, b) == IF a = Undefined \/ a = "" THEN b ELSE a

\* truthiness of an optional boolean
Truthy(a) == a = "true"

\* Map.get / Map.has on a map modelled as a function on its keys
Has(map, key) == key \in DOMAIN map
MapSet(map, key, value) ==
  [k \in DOMAIN map \cup {key} |-> IF k = key THEN value ELSE map[k]]
MapDelete(map, key) == [k \in DOMAIN map \ {key} |-> map[k]]
EmptyMap == [k \in {} |-> 0]

(***************************************************************************)
(* Topics and payloads.                                                    *)
(***************************************************************************)
\* `${prefix}${type}/${role}/${identifier}/ctrl`
Topic(prefix, type, role, identifier) ==
  <<prefix, type, role, identifier, "ctrl">>

Digits == <<"0", "1", "2", "3", "4", "5", "6", "7", "8", "9">>
IsDigit(c) == \E d \in 1..10 : Digits[d] = c
DigitValue(c) == (CHOOSE d \in 1..10 : Digits[d] = c) - 1

\* parseInt(str, 10) on a non-empty string of decimal digits
RECURSIVE parseInt(_)
parseInt(str) ==
  IF str = <<>> THEN 0
  ELSE parseInt(SubSeq(str, 1, Len(str) - 1)) * 10
       + DigitValue(str[Len(str)])

\* The regular expression /cd=0*(\d+)/ matches at position i.
CodeMatchAt(str, i) ==
  /\ i + 3 <= Len(str)
  /\ str[i] = "c" /\ str[i + 1] = "d" /\ str[i + 2] = "="
  /\ IsDigit(str[i + 3])

\* messageStr.match(/cd=0*(\d+)/): the captured group of the leftmost match,
\* or Undefined.  0* is greedy but leaves at least one digit to (\d+).
codeMatch(str) ==
  IF ~ \E i \in 1..Len(str) : CodeMatchAt(str, i) THEN Undefined
  ELSE
    LET i == CHOOSE k \in 1..Len(str) :
               CodeMatchAt(str, k) /\ \A j \in 1..(k - 1) : ~ CodeMatchAt(str, j)
        first == i + 3
        end == CHOOSE e \in first..Len(str) :
                 /\ \A j \in first..e : IsDigit(str[j])
                 /\ (e = Len(str) \/ ~ IsDigit(str[e + 1]))
        start == CHOOSE g \in first..end :
                   /\ \A j \in first..(g - 1) : str[j] = "0"
                   /\ (g = end \/ str[g] # "0")
    IN SubSeq(str, start, end)

(***************************************************************************)
(* getTopicStructureForDevice                                              *)
(***************************************************************************)
\* Variant: use_remote_topic_id is not consulted on the local broker.
getTopicStructureNoMirror(cfg, device, broker) ==
  IF broker = configBroker
  THEN [prefix |-> OrElse(cfg.remote.local_topic_prefix,
                          OrElse(cfg.remote.topic_prefix,
                                 DEFAULT_TOPIC_PREFIX)),
        identifier |-> device.mac]
  ELSE [prefix |-> OrElse(cfg.remote.topic_prefix, DEFAULT_TOPIC_PREFIX),
        identifier |-> device.remote_id]

getTopicStructureForDevice(cfg, device, broker) ==
  IF broker = configBroker
  THEN IF Truthy(device.use_remote_topic_id)
       THEN [prefix |-> OrElse(cfg.remote.topic_prefix, DEFAULT_TOPIC_PREFIX),
             identifier |-> device.remote_id]
       ELSE [prefix |-> OrElse(cfg.remote.local_topic_prefix,
                               OrElse(cfg.remote.topic_prefix,
                                      DEFAULT_TOPIC_PREFIX)),
             identifier |-> device.mac]
  ELSE [prefix |-> OrElse(cfg.remote.topic_prefix, DEFAULT_TOPIC_PREFIX),
        identifier |-> device.remote_id]

(***************************************************************************)
(* setupSubscriptions: the topic list handed to broker.subscribe().        *)
(***************************************************************************)
\* Variant: the role is not flipped on the local broker.
subscriptionTopicNoFlip(cfg, device, broker) ==
  LET ts == getTopicStructureForDevice(cfg, device, broker)
      inverseForwarding ==
        Truthy(Coalesce(device.inverse_forwarding, cfg.inverse_forwarding))
  IN IF inverseForwarding
     THEN Topic(ts.prefix, device.type, "device", ts.identifier)
     ELSE Topic(ts.prefix, device.type, "App", ts.identifier)

subscriptionTopic(cfg, device, broker) ==
  LET ts == getTopicStructureForDevice(cfg, device, broker)
      inverseForwarding ==
        Truthy(Coalesce(device.inverse_forwarding, cfg.inverse_forwarding))
      flipped == IF broker = configBroker THEN ~ inverseForwarding
                 ELSE inverseForwarding
  IN IF flipped
     THEN Topic(ts.prefix, device.type, "device", ts.identifier)
     ELSE Topic(ts.prefix, device.type, "App", ts.identifier)

\* Variant: the same role is subscribed on both connections.
setupSubscriptionsSameRole(cfg, broker) ==
  [i \in 1..Len(cfg.devices) |->
     subscriptionTopicNoFlip(cfg, cfg.devices[i], broker)]

setupSubscriptions(cfg, broker) ==
  [i \in 1..Len(cfg.devices) |-> subscriptionTopic(cfg, cfg.devices[i], broker)]

(***************************************************************************)
(* isMessageProcessed                                                      *)
(***************************************************************************)
\* packet.properties.userProperties.relayInstanceId is absent, a string, or
\* (a property repeated in the packet) an array of strings.
\* Variant: only the forwarder's own tag is recognised.
isMessageProcessedOwnOnly(packet) ==
  /\ packet.relayInstanceId.typeof = "string"
  /\ packet.relayInstanceId.value = INSTANCE_ID

isMessageProcessed(packet) ==
  IF packet.relayInstanceId.typeof = "string"
  THEN IF packet.relayInstanceId.value = INSTANCE_ID THEN TRUE ELSE TRUE
  ELSE FALSE

(***************************************************************************)
(* forwardMessage, device match                                            *)
(***************************************************************************)
\* topic.match(pattern) with the device's expected prefix, and the
\* comparison of the captured type and identifier.
topicMatches(cfg, device, topic, sourceClient) ==
  LET ts == getTopicStructureForDevice(cfg, device, sourceClient)
  IN /\ Len(topic) = 5
     /\ topic[1] = ts.prefix
     /\ topic[3] \in {"device", "App"}
     /\ topic[5] = "ctrl"
     /\ topic[2] = device.type
     /\ topic[4] = ts.identifier

\* index of the first device of the list that matches, 0 when none does
matchedDevice(cfg, topic, sourceClient) ==
  LET hits == {i \in 1..Len(cfg.devices) :
                 topicMatches(cfg, cfg.devices[i], topic, sourceClient)}
  IN IF hits = {} THEN 0
     ELSE CHOOSE i \in hits : \A j \in hits : i <= j

\* Variant: a key that does not tell the devices apart.
deviceKeyShared(device) == <<"device">>

deviceKey(device) == <<device.type, device.device_id, device.mac>>

otherBroker(broker) ==
  IF broker = configBroker THEN remoteBroker ELSE configBroker

\* Variant: the rule of the cloud-bound direction is applied to both.
directionRejectsOneSided(targetClient, isDevice, inverseForwarding) ==
  (isDevice /\ inverseForwarding) \/ (~ isDevice /\ ~ inverseForwarding)

\* The direction policy: TRUE when the message is ignored.
directionRejects(targetClient, isDevice, inverseForwarding) ==
  IF targetClient = configBroker
  THEN (isDevice /\ ~ inverseForwarding) \/ (~ isDevice /\ inverseForwarding)
  ELSE (isDevice /\ inverseForwarding) \/ (~ isDevice /\ ~ inverseForwarding)

\* Variant: a message exactly one timeout after the entry is skipped too.
gateRejectsAtTimeout(history, key, currentTime) ==
  \/ ~ Has(history, key)
  \/ history[key] = 0
  \/ currentTime - history[key] >= MESSAGE_HISTORY_TIMEOUT

\* The correlation gate: TRUE when a device message is skipped.
gateRejects(history, key, currentTime) ==
  \/ ~ Has(history, key)
  \/ history[key] = 0
  \/ currentTime - history[key] > MESSAGE_HISTORY_TIMEOUT

(***************************************************************************)
(* shouldRateLimit: codeOf is the parsed code of a payload (-1 when the     *)
(* pattern does not occur); rateLimitKey the key of the limiter map.       *)
(***************************************************************************)
codeOf(message) ==
  IF codeMatch(message) = Undefined THEN -1 ELSE parseInt(codeMatch(message))

isRateLimitedCode(message) ==
  codeMatch(message) # Undefined /\ codeOf(message) \in RATE_LIMITED_CODES

\* Variant: one limiter entry per device, whatever the code.
rateLimitKeyPerDevice(key, message) == <<key, 0>>

rateLimitKey(key, message) == <<key, codeOf(message)>>

\* Variant: App messages are limited in both directions.
limiterAppliesBothWays(targetClient) == targetClient \in Brokers

\* The limiter is consulted for App messages going from local to cloud.
limiterApplies(targetClient) == targetClient = remoteBroker

\* Variant: the limiter compares with the 1 s history timeout.
shouldRateLimitShortWindow(limited, message, key, currentTime) ==
  /\ isRateLimitedCode(message)
  /\ Has(limited, rateLimitKey(key, message))
  /\ limited[rateLimitKey(key, message)] # 0
  /\ currentTime - limited[rateLimitKey(key, message)]
       < MESSAGE_HISTORY_TIMEOUT

\* The value returned by shouldRateLimit(message, deviceKey).
shouldRateLimit(limited, message, key, currentTime) ==
  /\ isRateLimitedCode(message)
  /\ Has(limited, rateLimitKey(key, message))
  /\ limited[rateLimitKey(key, message)] # 0
  /\ currentTime - limited[rateLimitKey(key, message)] < RATE_LIMIT_INTERVAL

\* Variant: the time is recorded for suppressed messages too.
rateLimitedAfterAlways(limited, message, key, currentTime) ==
  IF isRateLimitedCode(message)
  THEN MapSet(limited, rateLimitKey(key, message), currentTime)
  ELSE limited

\* rateLimitedMessages after shouldRateLimit(message, deviceKey).
rateLimitedAfter(limited, message, key, currentTime) ==
  IF isRateLimitedCode(message)
     /\ ~ shouldRateLimit(limited, message, key, currentTime)
  THEN MapSet(limited, rateLimitKey(key, message), currentTime)
  ELSE limited

\* Variant: the App message is not recorded.
historyAfterAppSkipped(history, key, currentTime) == history

\* appMessageHistory after an App message passed the direction policy.
historyAfterApp(history, key, currentTime) == MapSet(history, key, currentTime)

\* Variant: the gate removes the entry it found expired.
historyAfterGateDropConsumed(history, key) == MapDelete(history, key)

\* appMessageHistory after the gate skipped a device message: the handler
\* returns before the delete.
historyAfterGateDrop(history, key) == history

\* Variant: the entry is kept when a device message is forwarded.
historyAfterDeviceKept(history, key) == history

\* appMessageHistory after a device message passed the gate.
historyAfterDevice(history, key) == MapDelete(history, key)

(***************************************************************************)
(* Incoming messages.                                                      *)
(***************************************************************************)
Payloads ==
  { <<"c", "d", "=", "0", "1">>,
    <<"c", "d", "=", "2">> }

NoRelay == [typeof |-> "undefined", value |-> Undefined]
RelayString(id) == [typeof |-> "string", value |-> id]

Packets ==
  { [relayInstanceId |-> NoRelay] }
  \cup { [relayInstanceId |-> RelayString(id)] : id \in InstanceIds }

\* Topics a broker may deliver to the handler of connection `broker`: for
\* every device the two roles in the topic form of that side, and for the
\* first device a topic with a role outside (device|App).
TopicsOn(cfg, broker) ==
  UNION { LET here == getTopicStructureForDevice(cfg, cfg.devices[i], broker)
              d == cfg.devices[i]
          IN { Topic(here.prefix, d.type, role, here.identifier) :
                 role \in IF i = 1 THEN {"device", "App", "server"}
                          ELSE {"device", "App"} }
          : i \in 1..Len(cfg.devices) }

(***************************************************************************)
(* State machine.                                                          *)
(***************************************************************************)
NoMessage ==
  [source |-> "none", topic |-> <<>>, message |-> <<>>,
   packet |-> [relayInstanceId |-> NoRelay], outcome |-> "none",
   device |-> 0]

\* initializeBrokers(): mqtt.connect() was called for both sessions and
\* setupBrokerEventHandlers() ran setupSubscriptions once for each: one
\* subscribe() call and one "message" listener per side.
ConnAfterSetup ==
  [status |-> [b \in Brokers |-> "connecting"],
   connects |-> [b \in Brokers |-> 0],
   subscribeCalls |-> [b \in Brokers |-> 1],
   messageHandlers |-> [b \in Brokers |-> 1],
   emitted |-> 0,
   pending |-> <<>>,
   handledSession |-> 0]

\* start() is not running, no API call is in flight, no helper is called.
BootIdle == [pc |-> "idle"]

ApiIdle == [pc |-> "idle"]

NoProbe == [fn |-> "none"]

\* The state after the constructor: both connections are created and
\* setupSubscriptions has run once for each.
Init ==
  /\ \E c \in Constructions : config = c.config /\ INSTANCE_ID = c.id
  /\ now = StartTime
  /\ appMessageHistory = EmptyMap
  /\ rateLimitedMessages = EmptyMap
  /\ processedMessages = EmptyMap
  /\ subscriptions = [b \in Brokers |-> setupSubscriptions(config, b)]
  /\ published = <<>>
  /\ last = NoMessage
  /\ responses = EmptyMap
  /\ nrecv = 0
  /\ conn = ConnAfterSetup
  /\ boot = BootIdle
  /\ api = ApiIdle
  /\ probe = NoProbe

\* The record kept of a handled message: what arrived, which log line the
\* handler ended with and the matched device (0 when none).
Handled(sourceClient, topic, message, packet, outcome, idx) ==
  [source |-> sourceClient, topic |-> topic, message |-> message,
   packet |-> packet, outcome |-> outcome, device |-> idx]

\* Variant: the role token is exchanged on the way.
newTopicOfExchanged(target, topic) ==
  Topic(target.prefix, topic[2],
        IF topic[3] = "device" THEN "App" ELSE "device",
        target.identifier)

\* `${targetPrefix}${topicType}/${deviceOrApp}/${targetIdentifier}/ctrl`
newTopicOf(target, topic) ==
  Topic(target.prefix, topic[2],
        IF topic[3] = "device" THEN "device" ELSE "App",
        target.identifier)

\* Variant: the call is issued without publishOptions.
publishCallUntagged(targetClient, newTopic, message, key) ==
  [client |-> targetClient, topic |-> newTopic, message |-> message,
   options |-> [userProperties |-> [relayInstanceId |-> Undefined]],
   deviceKey |-> key, at |-> now, recv |-> nrecv + 1]

\* The arguments of targetClient.publish(newTopic, message, publishOptions);
\* deviceKey, at and recv record for which device, when and for which
\* received message the call was issued.
publishCall(targetClient, newTopic, message, key) ==
  [client |-> targetClient, topic |-> newTopic, message |-> message,
   options |-> [userProperties |-> [relayInstanceId |-> INSTANCE_ID]],
   deviceKey |-> key, at |-> now, recv |-> nrecv + 1]

\* Variant: the latest call overtakes the ones issued before it.
issueFirst(calls, call) == <<call>> \o calls

\* The publish() calls issued so far, after one more call.
issue(calls, call) == Append(calls, call)

\* The handler registered by broker.on("message", ...) on the connection
\* otherBroker(targetClient), handling one delivered message to its end.
forwardMessage(topic, message, targetClient, packet) ==
  LET sourceClient == otherBroker(targetClient)
      idx == matchedDevice(config, topic, sourceClient)
      device == config.devices[idx]
      isDevice == topic[3] = "device"
      inverseForwarding ==
        Truthy(Coalesce(device.inverse_forwarding, config.inverse_forwarding))
      key == deviceKey(device)
      target == getTopicStructureForDevice(config, device, targetClient)
      newTopic == newTopicOf(target, topic)
      drop(outcome, i) ==
        /\ last' = Handled(sourceClient, topic, message, packet, outcome, i)
        /\ UNCHANGED <<appMessageHistory, rateLimitedMessages, published,
                       responses>>
      publish ==
        /\ published' =
             issue(published, publishCall(targetClient, newTopic, message, key))
        /\ last' = Handled(sourceClient, topic, message, packet,
                           "forwarded", idx)
  IN /\ nrecv < MaxMsgs
     /\ nrecv' = nrecv + 1
     /\ UNCHANGED <<config, INSTANCE_ID, now, processedMessages,
                    subscriptions>>
     /\ IF isMessageProcessed(packet) THEN drop("loop", 0)
        ELSE IF idx = 0 THEN drop("no-match", 0)
        ELSE IF directionRejects(targetClient, isDevice, inverseForwarding)
          THEN drop("direction", idx)
        ELSE IF isDevice
          THEN IF gateRejects(appMessageHistory, key, now)
               THEN /\ last' = Handled(sourceClient, topic, message, packet,
                                       "no-recent-app", idx)
                    /\ appMessageHistory' =
                         historyAfterGateDrop(appMessageHistory, key)
                    /\ UNCHANGED <<rateLimitedMessages, published, responses>>
               ELSE /\ appMessageHistory' =
                         historyAfterDevice(appMessageHistory, key)
                    /\ responses' =
                         MapSet(responses, key,
                                IF Has(responses, key)
                                THEN responses[key] + 1 ELSE 1)
                    /\ UNCHANGED rateLimitedMessages
                    /\ publish
        ELSE /\ appMessageHistory' =
                  historyAfterApp(appMessageHistory, key, now)
             /\ responses' = MapSet(responses, key, 0)
             /\ IF limiterApplies(targetClient)
                THEN /\ rateLimitedMessages' =
                          rateLimitedAfter(rateLimitedMessages, message,
                                           key, now)
                     /\ IF shouldRateLimit(rateLimitedMessages, message,
                                           key, now)
                        THEN /\ last' = Handled(sourceClient, topic, message,
                                                packet, "rate-limited", idx)
                             /\ UNCHANGED published
                        ELSE publish
                ELSE /\ UNCHANGED rateLimitedMessages
                     /\ publish

\* A message is delivered on one of the two connections.
Receive ==
  \E source \in Brokers :
    \E topic \in TopicsOn(config, source) :
      \E message \in Payloads :
        \E packet \in Packets :
          /\ forwardMessage(topic, message, otherBroker(source), packet)
          /\ UNCHANGED <<conn, boot, api, probe>>

\* The instants at which Date.now() is read: the start, one history timeout
\* later, one history timeout short of the rate limit interval, and one rate
\* limit interval later.
ClockPoints ==
  {StartTime,
   StartTime + MESSAGE_HISTORY_TIMEOUT,
   StartTime + RATE_LIMIT_INTERVAL - MESSAGE_HISTORY_TIMEOUT,
   StartTime + RATE_LIMIT_INTERVAL}

\* Time passes between two handler runs.
Tick ==
  /\ \E t \in ClockPoints : t > now /\ now' = t
  /\ UNCHANGED <<config, INSTANCE_ID, appMessageHistory, rateLimitedMessages,
                 processedMessages, subscriptions, published, last,
                 responses, nrecv, conn, boot, api, probe>>

Next == Receive \/ Tick

Spec == Init /\ [][Next]_vars

(***************************************************************************)
(* Connection events (setupBrokerEventHandlers) and the delivery of a      *)
(* message to the registered "message" listeners.                          *)
(***************************************************************************)
fwdVars == <<config, INSTANCE_ID, now, appMessageHistory, rateLimitedMessages,
             processedMessages, subscriptions, published, last, responses,
             nrecv>>

\* Variant: the "connect" listener sets the subscriptions up again.
onConnectResubscribe(c, broker) ==
  [c EXCEPT !.subscribeCalls[broker] = @ + 1,
            !.messageHandlers[broker] = @ + 1]

\* on("connect", ...): logs, nothing else.
onConnect(c, broker) == c

\* on("error", ...): logs the error.
onError(c, broker) == c

\* on("disconnect", ...): logs a warning.
onDisconnect(c, broker) == c

\* on("offline", ...): logs a warning.
onOffline(c, broker) == c

\* The library (re)connects a session and emits "connect".
Connect ==
  \E b \in Brokers :
    /\ conn.pending = <<>>
    /\ conn.status[b] # "connected"
    /\ conn.connects[b] < MaxConnects
    /\ conn' = onConnect([conn EXCEPT !.status[b] = "connected",
                                      !.connects[b] = @ + 1], b)
    /\ UNCHANGED <<fwdVars, boot, api, probe>>

\* The library loses a session and emits "offline".
Offline ==
  \E b \in Brokers :
    /\ conn.pending = <<>>
    /\ conn.status[b] = "connected"
    /\ conn' = onOffline([conn EXCEPT !.status[b] = "offline"], b)
    /\ UNCHANGED <<fwdVars, boot, api, probe>>

\* The broker sends DISCONNECT and the library emits "disconnect".
Disconnect ==
  \E b \in Brokers :
    /\ conn.pending = <<>>
    /\ conn.status[b] = "connected"
    /\ conn' = onDisconnect(conn, b)
    /\ UNCHANGED <<fwdVars, boot, api, probe>>

\* The library emits "error" (a failed connection attempt, a parse error).
ConnError ==
  \E b \in Brokers :
    /\ conn.pending = <<>>
    /\ conn' = onError(conn, b)
    /\ UNCHANGED <<fwdVars, boot, api, probe>>

\* A message on a subscribed topic arrives on a connected session: the
\* library calls every registered "message" listener with it.
Emit ==
  \E source \in Brokers :
    \E i \in DOMAIN subscriptions[source] :
      \E message \in Payloads :
        \E packet \in Packets :
          /\ conn.pending = <<>>
          /\ conn.status[source] = "connected"
          /\ conn.emitted < MaxMsgs
          /\ conn' =
               [conn EXCEPT
                  !.emitted = @ + 1,
                  !.pending =
                     [k \in 1..conn.messageHandlers[source] |->
                        [topic |-> subscriptions[source][i],
                         message |-> message, packet |-> packet,
                         source |-> source,
                         session |-> conn.connects[source]]]]
          /\ UNCHANGED <<fwdVars, boot, api, probe>>

\* One registered listener runs: the arrow function of setupSubscriptions
\* calls forwardMessage.
RunListener ==
  /\ conn.pending # <<>>
  /\ LET call == Head(conn.pending)
     IN forwardMessage(call.topic, call.message, otherBroker(call.source),
                       call.packet)
  /\ conn' = [conn EXCEPT !.pending = Tail(@),
                          !.handledSession = Head(conn.pending).session]
  /\ UNCHANGED <<boot, api, probe>>

NextConn ==
  Connect \/ Offline \/ Disconnect \/ ConnError \/ Emit \/ RunListener

SpecConn == Init /\ [][NextConn]_vars

(***************************************************************************)
(* Strings of main.ts and topic.ts, as sequences of characters.            *)
(***************************************************************************)
LowerCase ==
  <<"a", "b", "c", "d", "e", "f", "g", "h", "i", "j", "k", "l", "m",
    "n", "o", "p", "q", "r", "s", "t", "u", "v", "w", "x", "y", "z">>

UpperCase ==
  <<"A", "B", "C", "D", "E", "F", "G", "H", "I", "J", "K", "L", "M",
    "N", "O", "P", "Q", "R", "S", "T", "U", "V", "W", "X", "Y", "Z">>

\* the value of an absent or NaN number (version?: number)
NoNumber == -1

\* the value of an absent string (undefined or null); no string of
\* characters equals it
NoString == <<Undefined>>

IsLower(c) == \E i \in 1..26 : LowerCase[i] = c
IsUpper(c) == \E i \in 1..26 : UpperCase[i] = c

\* \w of a regular expression
IsWordChar(c) == IsDigit(c) \/ IsLower(c) \/ IsUpper(c) \/ c = "_"

\* [0-9A-Fa-f]
IsHexChar(c) ==
  IsDigit(c) \/ c \in {"a", "b", "c", "d", "e", "f",
                        "A", "B", "C", "D", "E", "F"}

\* String.prototype.toUpperCase / toLowerCase
toUpperCase(str) ==
  [i \in 1..Len(str) |->
     IF IsLower(str[i])
     THEN UpperCase[CHOOSE k \in 1..26 : LowerCase[k] = str[i]]
     ELSE str[i]]

toLowerCase(str) ==
  [i \in 1..Len(str) |->
     IF IsUpper(str[i])
     THEN LowerCase[CHOOSE k \in 1..26 : UpperCase[k] = str[i]]
     ELSE str[i]]

\* String.prototype.trim
trim(str) ==
  LET solid == {i \in 1..Len(str) : str[i] # " "}
  IN IF solid = {} THEN <<>>
     ELSE SubSeq(str,
                 CHOOSE i \in solid : \A j \in solid : i <= j,
                 CHOOSE i \in solid : \A j \in solid : j <= i)

\* str.replace(/:/g, "")
stripColons(str) == SelectSeq(str, LAMBDA c : c # ":")

\* String.prototype.startsWith
startsWith(str, prefix) ==
  /\ Len(prefix) <= Len(str)
  /\ SubSeq(str, 1, Len(prefix)) = prefix

\* An identifier that is a plain string, and the absent identifier.
Text(str) == [form |-> "text", text |-> str]

NoRemoteId == [form |-> "absent"]

\* !value for an optional string: absent or empty
Falsy(str) == str = NoString \/ str = <<>>

\* the longest prefix of decimal digits
digitPrefix(str) ==
  LET stop == {i \in 1..Len(str) : ~ IsDigit(str[i])}
  IN IF stop = {} THEN str
     ELSE SubSeq(str, 1, (CHOOSE i \in stop : \A j \in stop : i <= j) - 1)

\* str with its leading blanks removed
skipBlanks(str) ==
  LET solid == {i \in 1..Len(str) : str[i] # " "}
  IN IF solid = {} THEN <<>>
     ELSE SubSeq(str, CHOOSE i \in solid : \A j \in solid : i <= j,
                 Len(str))

\* parseInt(str, 10) of main.ts line 210, on an absent string or a string
\* without a sign: the leading digits, NaN when there is none.
parseIntOrNaN(str) ==
  IF str = NoString THEN NoNumber
  ELSE IF digitPrefix(skipBlanks(str)) = <<>> THEN NoNumber
  ELSE parseInt(digitPrefix(skipBlanks(str)))

\* Math.floor(parseFloat(str)) on a string without sign or exponent; NaN
\* when no numeral starts the string.  The thresholds a version is compared
\* with are whole numbers, so the comparison depends on the floor only.
parseFloatFloor(str) ==
  LET rest == skipBlanks(str)
      whole == digitPrefix(rest)
  IN IF whole # <<>> THEN parseInt(whole)
     ELSE IF Len(rest) >= 2 /\ rest[1] = "." /\ IsDigit(rest[2]) THEN 0
     ELSE NoNumber

\* Number.prototype.toString of a non-negative whole number
RECURSIVE numberToString(_)
numberToString(n) ==
  IF n < 10 THEN <<Digits[n + 1]>>
  ELSE Append(numberToString(n \div 10), Digits[(n % 10) + 1])

(***************************************************************************)
(* The firmware gate and the salt (topic.ts, CommonHelper).                *)
(***************************************************************************)
\* Variant: the HMJ threshold is compared strictly.
isSupportVidStrictHmj(vid, firmwareVersion) ==
  IF Falsy(vid) \/ Falsy(firmwareVersion) THEN FALSE
  ELSE
    LET version == parseFloatFloor(firmwareVersion)
        normalizedVid == toUpperCase(vid)
    IN IF version = NoNumber THEN FALSE
       ELSE IF \E v \in {<<"J", "P", "L", "S">>, <<"H", "M", "M">>,
                          <<"H", "M", "N">>} : startsWith(normalizedVid, v)
         THEN version >= 136
       ELSE IF \E v \in {<<"H", "M", "B">>, <<"H", "M", "A">>,
                          <<"H", "M", "K">>, <<"H", "M", "F">>} :
                 startsWith(normalizedVid, v)
         THEN version >= 230
       ELSE IF startsWith(normalizedVid, <<"H", "M", "J">>)
         THEN version > 116
       ELSE IF normalizedVid \in {<<"H", "M", "E", "-", "2">>,
                                  <<"H", "M", "E", "-", "4">>,
                                  <<"T", "P", "M", "-", "C", "N">>}
         THEN version >= 122
       ELSE IF normalizedVid \in {<<"H", "M", "E", "-", "3">>,
                                  <<"H", "M", "E", "-", "5">>}
         THEN version >= 120
       ELSE IF startsWith(normalizedVid, <<"H", "M", "G">>)
         THEN version >= 154
       ELSE FALSE

\* CommonHelper.isSupportVid(vid, firmwareVersion)
isSupportVid(vid, firmwareVersion) ==
  IF Falsy(vid) \/ Falsy(firmwareVersion) THEN FALSE
  ELSE
    LET version == parseFloatFloor(firmwareVersion)
        normalizedVid == toUpperCase(vid)
    IN IF version = NoNumber THEN FALSE
       ELSE IF \E v \in {<<"J", "P", "L", "S">>, <<"H", "M", "M">>,
                          <<"H", "M", "N">>} : startsWith(normalizedVid, v)
         THEN version >= 136
       ELSE IF \E v \in {<<"H", "M", "B">>, <<"H", "M", "A">>,
                          <<"H", "M", "K">>, <<"H", "M", "F">>} :
                 startsWith(normalizedVid, v)
         THEN version >= 230
       ELSE IF startsWith(normalizedVid, <<"H", "M", "J">>)
         THEN version >= 116
       ELSE IF normalizedVid \in {<<"H", "M", "E", "-", "2">>,
                                  <<"H", "M", "E", "-", "4">>,
                                  <<"T", "P", "M", "-", "C", "N">>}
         THEN version >= 122
       ELSE IF normalizedVid \in {<<"H", "M", "E", "-", "3">>,
                                  <<"H", "M", "E", "-", "5">>}
         THEN version >= 120
       ELSE IF startsWith(normalizedVid, <<"H", "M", "G">>)
         THEN version >= 154
       ELSE FALSE

\* CommonHelper.isSupportVid(vid, firmwareVersion) in the later revision of
\* topic.ts, which adds the HMI and VNSE3 branches.
isSupportVidLatest(vid, firmwareVersion) ==
  IF Falsy(vid) \/ Falsy(firmwareVersion) THEN FALSE
  ELSE
    LET version == parseFloatFloor(firmwareVersion)
        normalizedVid == toUpperCase(vid)
    IN IF version = NoNumber THEN FALSE
       ELSE IF \E v \in {<<"J", "P", "L", "S">>, <<"H", "M", "M">>,
                          <<"H", "M", "N">>} : startsWith(normalizedVid, v)
         THEN version >= 136
       ELSE IF \E v \in {<<"H", "M", "B">>, <<"H", "M", "A">>,
                          <<"H", "M", "K">>, <<"H", "M", "F">>} :
                 startsWith(normalizedVid, v)
         THEN version >= 230
       ELSE IF startsWith(normalizedVid, <<"H", "M", "J">>)
         THEN version >= 116
       ELSE IF normalizedVid \in {<<"H", "M", "E", "-", "2">>,
                                  <<"H", "M", "E", "-", "4">>,
                                  <<"T", "P", "M", "-", "C", "N">>}
         THEN version >= 122
       ELSE IF normalizedVid \in {<<"H", "M", "E", "-", "3">>,
                                  <<"H", "M", "E", "-", "5">>}
         THEN version >= 120
       ELSE IF startsWith(normalizedVid, <<"H", "M", "G">>)
         THEN version >= 154
       ELSE IF startsWith(normalizedVid, <<"H", "M", "I">>)
         THEN version >= 126
       ELSE IF startsWith(normalizedVid, <<"V", "N", "S", "E", "3">>)
         THEN TRUE
       ELSE FALSE

\* CommonHelper.extractFirstSalt(saltPair): the text before the first
\* comma, trimmed; "" for an absent or empty pair.
extractFirstSalt(saltPair) ==
  IF Falsy(saltPair) THEN <<>>
  ELSE
    LET commas == {i \in 1..Len(saltPair) : saltPair[i] = ","}
    IN IF commas = {} THEN trim(saltPair)
       ELSE trim(SubSeq(saltPair, 1,
                        (CHOOSE i \in commas : \A j \in commas : i <= j) - 1))

\* CommonHelper.cq(salt, mac, vid): "" for a mac shorter than 4, otherwise
\* the salted identifier, a function of the three arguments.
cq(salt, mac, vid) ==
  IF Len(mac) < 4 THEN Text(<<>>)
  ELSE [form |-> "salted", salt |-> salt, mac |-> mac, vid |-> vid]

\* calculateNewVersionTopicId(key, mac): the keyed identifier, a function of
\* key and mac.
calculateNewVersionTopicId(key, mac) ==
  [form |-> "keyed", key |-> key, mac |-> mac]

(***************************************************************************)
(* Broker selection (main.ts).                                             *)
(***************************************************************************)
\* /(.*)-[\d\w]+/.exec(type): the text before the last "-" that a word
\* character follows, NoString when the expression does not match.
baseTypeOf(type) ==
  LET dashes == {k \in 1..(Len(type) - 1) :
                   type[k] = "-" /\ IsWordChar(type[k + 1])}
  IN IF dashes = {} THEN NoString
     ELSE SubSeq(type, 1,
                 (CHOOSE k \in dashes : \A j \in dashes : j <= k) - 1)

\* The loop of autoDetermineBroker over Object.entries(brokers) from entry
\* i on; chosen = Undefined stands for highest = -Infinity.
RECURSIVE autoScan(_, _, _, _, _, _)
autoScan(brokers, i, baseType, version, chosen, highest) ==
  IF i > Len(brokers) THEN chosen
  ELSE
    LET minVersions == brokers[i].broker.min_versions
        declared == baseType \in DOMAIN minVersions
        take == /\ declared
                /\ version >= minVersions[baseType]
                /\ (chosen = Undefined \/ minVersions[baseType] > highest)
    IN IF take
       THEN autoScan(brokers, i + 1, baseType, version, brokers[i].id,
                     minVersions[baseType])
       ELSE autoScan(brokers, i + 1, baseType, version, chosen, highest)

\* Variant: the lowest threshold is kept instead of the highest.
autoDetermineBrokerFirst(device, brokers) ==
  IF device.version = NoNumber THEN Undefined
  ELSE IF baseTypeOf(device.type) = NoString THEN Undefined
  ELSE
    LET baseType == baseTypeOf(device.type)
        ok == {i \in 1..Len(brokers) :
                 /\ baseType \in DOMAIN brokers[i].broker.min_versions
                 /\ device.version >= brokers[i].broker.min_versions[baseType]}
    IN IF ok = {} THEN Undefined
       ELSE brokers[CHOOSE i \in ok : \A j \in ok : i <= j].id

\* autoDetermineBroker(device, brokers): a broker id or Undefined
autoDetermineBroker(device, brokers) ==
  IF device.version = NoNumber THEN Undefined
  ELSE IF baseTypeOf(device.type) = NoString THEN Undefined
  ELSE autoScan(brokers, 1, baseTypeOf(device.type), device.version,
                Undefined, 0)

\* A variant that would look at the family only.
shouldUseRemoteTopicIdAnyVersion(device, broker) ==
  IF device.version = NoNumber THEN FALSE
  ELSE IF baseTypeOf(device.type) = NoString THEN FALSE
  ELSE baseTypeOf(device.type) \in DOMAIN broker.use_remote_topic_id_versions

\* shouldUseRemoteTopicId(device, broker)
shouldUseRemoteTopicId(device, broker) ==
  IF device.version = NoNumber THEN FALSE
  ELSE IF baseTypeOf(device.type) = NoString THEN FALSE
  ELSE IF baseTypeOf(device.type)
             \notin DOMAIN broker.use_remote_topic_id_versions THEN FALSE
  ELSE device.version
         \in broker.use_remote_topic_id_versions[baseTypeOf(device.type)]

\* if (device.use_remote_topic_id == null) { if (shouldUseRemoteTopicId(..))
\* device.use_remote_topic_id = true }
mirror(device, broker) ==
  IF device.use_remote_topic_id = Undefined
     /\ shouldUseRemoteTopicId(device, broker)
  THEN [device EXCEPT !.use_remote_topic_id = "true"]
  ELSE device

(***************************************************************************)
(* Inputs of start(): the vendor API's answer, config.json, brokers.json.  *)
(***************************************************************************)
MaxDevices == 2

Repeat(c, n) == [i \in 1..n |-> c]

GoodMac ==
  <<"a", "a", "b", "b", "c", "c", "d", "d", "e", "e", "f", "f">>

ColonMac ==
  <<"A", "A", ":", "B", "B", ":", "C", "C", ":", "0", "0", ":", "1", "1",
    ":", "2", "2">>

\* Entries of the device list the API returns (DeviceInfo).
RawHMA ==
  [devid |-> Repeat("1", 12), mac |-> GoodMac,
   type |-> <<"H", "M", "A", "-", "1">>, name |-> "B2500",
   version |-> <<"2", "3", "0">>, salt |-> <<"s", "1", ",", "s", "2">>]

RawHMG ==
  [devid |-> <<" ">> \o Repeat("2", 22), mac |-> ColonMac,
   type |-> <<"h", "m", "g", "-", "5", "0">>, name |-> "Venus",
   version |-> <<"1", "5", "3">>, salt |-> NoString]

RawJPLS ==
  [devid |-> Repeat("3", 24), mac |-> GoodMac,
   type |-> <<"J", "P", "L", "S", "-", "8", "H">>, name |-> "Jupiter",
   version |-> <<"1", "3", "6", ".", "0">>, salt |-> <<"x", "y">>]

RawNoVersion ==
  [devid |-> Repeat("4", 12), mac |-> GoodMac,
   type |-> <<"H", "M", "B", "-", "1">>, name |-> "B2500",
   version |-> <<>>, salt |-> <<"s", "1", ",", "s", "2">>]

RawBadSalt ==
  [devid |-> Repeat("5", 12), mac |-> GoodMac,
   type |-> <<"H", "M", "A", "-", "2">>, name |-> "B2500",
   version |-> <<"2", "3", "0">>, salt |-> <<",", "s", "2">>]

RawBadMac ==
  [devid |-> Repeat("6", 12), mac |-> <<"a", "a", "b", "b", "z", "z">>,
   type |-> <<"H", "M", "A", "-", "1">>, name |-> "B2500",
   version |-> <<"2", "2", "6">>, salt |-> NoString]

RawBadId ==
  [devid |-> Repeat("7", 13), mac |-> GoodMac,
   type |-> <<"H", "M", "J", "-", "1">>, name |-> "B2500",
   version |-> <<"1", "1", "6">>, salt |-> NoString]

RawNoType ==
  [devid |-> Repeat("8", 12), mac |-> GoodMac,
   type |-> NoString, name |-> "B2500",
   version |-> <<"2", "3", "0">>, salt |-> NoString]

RawDevices ==
  {RawHMA, RawHMG, RawJPLS, RawNoVersion, RawBadSalt, RawBadMac, RawBadId,
   RawNoType}

RECURSIVE SeqsUpTo(_, _)
SeqsUpTo(S, n) ==
  IF n = 0 THEN {<<>>}
  ELSE SeqsUpTo(S, n - 1)
         \cup {Append(q, x) : q \in {r \in SeqsUpTo(S, n - 1) : Len(r) = n - 1},
                              x \in S}

\* What api.fetchDevices does: it throws, or returns a device list.
ApiResults ==
  {[throws |-> TRUE, data |-> <<>>]}
    \cup {[throws |-> FALSE, data |-> q] : q \in SeqsUpTo(RawDevices, MaxDevices)}

\* Entries of brokers.json (BrokerDefinition), in file order.
NoVersions == [k \in {} |-> 0]

Broker2024 ==
  [id |-> "hame-2024",
   broker |-> [min_versions |-> NoVersions,
               topic_encryption_key |-> Undefined,
               use_remote_topic_id_versions |-> NoVersions]]

Broker2025 ==
  [id |-> "hame-2025",
   broker |-> [min_versions |->
                 (<<"H", "M", "A">> :> 226) @@ (<<"J", "P", "L", "S">> :> 136),
               topic_encryption_key |-> "0123456789abcdef0123456789abcdef",
               use_remote_topic_id_versions |->
                 (<<"H", "M", "A">> :> {230})]]

Broker2026 ==
  [id |-> "hame-2026",
   broker |-> [min_versions |->
                 (<<"H", "M", "A">> :> 231) @@ (<<"J", "P", "L", "S">> :> 136),
               topic_encryption_key |-> Undefined,
               use_remote_topic_id_versions |-> NoVersions]]

Catalogs ==
  {<<Broker2024, Broker2025, Broker2026>>, <<Broker2026, Broker2025>>}

\* A device of the devices list of config.json.
StaticDevice ==
  [device_id |-> Repeat("9", 12), mac |-> GoodMac,
   type |-> <<"H", "M", "A", "-", "1">>, name |-> "static",
   version |-> 230, salt |-> NoString, inverse_forwarding |-> Undefined,
   broker_id |-> "hame-2025", remote_id |-> NoRemoteId,
   use_remote_topic_id |-> Undefined]

\* config.json (MainConfig)
MainConfigs ==
  {[username |-> u, password |-> "secret", inverse_forwarding |-> inv,
    default_broker_id |-> def, inverse_forwarding_device_ids |-> ids,
    devices |-> <<StaticDevice>>] :
     u \in {"user@example.com", Undefined},
     inv \in {Undefined, "true"},
     def \in {Undefined, "hame-2025", "nowhere"},
     ids \in {NoString,
              Repeat("1", 12) \o <<",", " ", ",", " ">> \o Repeat("5", 12)
                \o <<" ", ",">>}}

(***************************************************************************)
(* The steps of start() (main.ts).                                         *)
(***************************************************************************)
\* !device.remote_id
NoRemote(id) == id.form = "absent" \/ (id.form = "text" /\ id.text = <<>>)

\* The catch block of start(): the error is logged and process.exit(1).
Fail(b, message) ==
  [b EXCEPT !.pc = "exited", !.exitCode = 1, !.thrown = message]

\* apiDevicesRaw.map(...): the Device built from one API entry.
apiDevice(raw) ==
  [device_id |-> raw.devid, mac |-> raw.mac, type |-> raw.type,
   name |-> raw.name, version |-> parseIntOrNaN(raw.version),
   salt |-> raw.salt, inverse_forwarding |-> Undefined,
   broker_id |-> Undefined, remote_id |-> NoRemoteId,
   use_remote_topic_id |-> Undefined]

\* The state of start() once config.json and brokers.json are read.
Loaded(cfg, brokers) ==
  [pc |-> "credentials", config |-> cfg, brokers |-> brokers,
   apiDevices |-> <<>>, errors |-> <<>>, i |-> 1,
   devicesByBroker |-> <<>>,
   forwarders |-> <<>>, connections |-> 0, exitCode |-> NoNumber,
   thrown |-> Undefined]

\* if (!config.username || !config.password) throw
checkCredentials(b) ==
  IF OrElse(b.config.username, Undefined) = Undefined
     \/ OrElse(b.config.password, Undefined) = Undefined
  THEN Fail(b, "Username and password are required")
  ELSE [b EXCEPT !.pc = "fetch"]

\* A start() that would fall back to the devices of config.json when the
\* API call throws.
fetchedWithFallback(b, result) ==
  IF result.throws THEN [b EXCEPT !.pc = "inverse"]
  ELSE IF Len(result.data) = 0
    THEN Fail(b, "Unable to fetch device information: No devices found")
  ELSE [b EXCEPT !.pc = "inverse",
                 !.apiDevices = result.data,
                 !.config.devices =
                    [k \in 1..Len(result.data) |-> apiDevice(result.data[k])]]

\* await api.fetchDevices(...) and the mapping of its result; both throws
\* are caught and rethrown with the prefix "Unable to fetch device
\* information from Hame API: ".
fetched(b, result) ==
  IF result.throws
    THEN Fail(b, "Unable to fetch device information: API error")
  ELSE IF Len(result.data) = 0
    THEN Fail(b, "Unable to fetch device information: No devices found")
  ELSE [b EXCEPT !.pc = "inverse",
                 !.apiDevices = result.data,
                 !.config.devices =
                    [k \in 1..Len(result.data) |-> apiDevice(result.data[k])]]

\* str.split(",").map(trim).filter(non-empty), as a set
RECURSIVE splitIds(_)
splitIds(str) ==
  LET commas == {k \in 1..Len(str) : str[k] = ","}
      first == CHOOSE k \in commas : \A j \in commas : k <= j
  IN IF commas = {}
     THEN IF trim(str) = <<>> THEN {} ELSE {trim(str)}
     ELSE (IF trim(SubSeq(str, 1, first - 1)) = <<>> THEN {}
           ELSE {trim(SubSeq(str, 1, first - 1))})
            \cup splitIds(SubSeq(str, first + 1, Len(str)))

selectiveInverseDeviceIds(cfg) ==
  IF Falsy(cfg.inverse_forwarding_device_ids) THEN {}
  ELSE splitIds(cfg.inverse_forwarding_device_ids)

\* A loop body that would use inverse forwarding for every type.
autoInverseAlways(device, selective) ==
  IF device.inverse_forwarding # Undefined THEN device
  ELSE [device EXCEPT !.inverse_forwarding = "true"]

\* The body of the loop that sets inverse_forwarding, for one device.
autoInverse(device, selective) ==
  IF device.inverse_forwarding # Undefined THEN device
  ELSE IF \E t \in {<<"H", "M", "A">>, <<"H", "M", "F">>, <<"H", "M", "K">>,
                     <<"H", "M", "J">>} :
            startsWith(toUpperCase(device.type), t)
    THEN [device EXCEPT !.inverse_forwarding =
            IF device.device_id \in selective THEN "true" ELSE "false"]
  ELSE [device EXCEPT !.inverse_forwarding = "true"]

\* The loop that sets inverse_forwarding: device.type.toUpperCase() throws
\* a TypeError for a device without a type.
applyInverse(b) ==
  IF \E k \in 1..Len(b.config.devices) :
       /\ b.config.devices[k].inverse_forwarding = Undefined
       /\ b.config.devices[k].type = NoString
  THEN Fail(b, "TypeError: Cannot read properties of undefined")
  ELSE [b EXCEPT !.pc = "flip",
                 !.config.devices =
                    [k \in 1..Len(b.config.devices) |->
                       autoInverse(b.config.devices[k],
                                   selectiveInverseDeviceIds(b.config))]]

\* A start() without the global flip.
globalFlipNever(b) == [b EXCEPT !.pc = "auto"]

\* if (config.inverse_forwarding === true) every device's flag is negated
globalFlip(b) ==
  IF b.config.inverse_forwarding = "true"
  THEN [b EXCEPT !.pc = "auto",
                 !.config.devices =
                    [k \in 1..Len(b.config.devices) |->
                       [b.config.devices[k] EXCEPT !.inverse_forwarding =
                          IF Truthy(@) THEN "false" ELSE "true"]]]
  ELSE [b EXCEPT !.pc = "auto"]

\* A loop body that would select a broker even for a device that names one.
autoSelectAlways(device, brokers) ==
  IF autoDetermineBroker(device, brokers) # Undefined
    THEN [device EXCEPT !.broker_id = autoDetermineBroker(device, brokers)]
  ELSE device

\* The body of the loop that selects a broker, for one device.
autoSelect(device, brokers) ==
  IF OrElse(device.broker_id, Undefined) # Undefined THEN device
  ELSE IF autoDetermineBroker(device, brokers) # Undefined
    THEN [device EXCEPT !.broker_id = autoDetermineBroker(device, brokers)]
  ELSE device

autoSelectAll(b) ==
  [b EXCEPT !.pc = "validate",
            !.config.devices =
               [k \in 1..Len(b.config.devices) |->
                  autoSelect(b.config.devices[k], b.brokers)]]

\* The error cleanAndValidate throws inside its loop for one device, or
\* "ok".  The id is trimmed and the mac is trimmed, stripped of colons and
\* lowercased before their forms are tested.
validationError(device) ==
  IF Falsy(device.device_id) THEN "Device ID is required"
  ELSE IF Falsy(device.mac) THEN "MAC address is required"
  ELSE IF Falsy(device.type) THEN "Device type is required"
  ELSE IF /\ Len(trim(device.device_id)) # 12
          /\ (Len(trim(device.device_id)) < 22
                \/ Len(trim(device.device_id)) > 24)
    THEN "Device ID must be between 22 and 24 or exactly 12 characters long"
  ELSE IF ~ (/\ Len(stripColons(trim(device.mac))) = 12
             /\ \A k \in 1..12 :
                  IsHexChar(toLowerCase(stripColons(trim(device.mac)))[k]))
    THEN "MAC address must be a 12-character hexadecimal string"
  ELSE "ok"

\* The device as cleanAndValidate leaves it when it is kept.
normalized(device) ==
  [device EXCEPT !.device_id = trim(@),
                 !.mac = toLowerCase(stripColons(trim(@))),
                 !.type = toUpperCase(trim(@))]

\* cleanAndValidate(config)
cleanAndValidate(b) ==
  LET devices == b.config.devices
      kept == SelectSeq(devices, LAMBDA d : validationError(d) = "ok")
      bad == SelectSeq(devices, LAMBDA d : validationError(d) # "ok")
      remainingDevices == [k \in 1..Len(kept) |-> normalized(kept[k])]
      errors == [k \in 1..Len(bad) |->
                   [device_id |-> bad[k].device_id,
                    message |-> validationError(bad[k])]]
  IN IF Len(devices) = 0 THEN Fail(b, "No devices specified in config file")
     ELSE IF Len(errors) > 0 /\ Len(remainingDevices) = 0
       THEN Fail([b EXCEPT !.config.devices = remainingDevices,
                           !.errors = errors],
                 "All devices failed validation")
     ELSE [b EXCEPT !.pc = "bind", !.i = 1,
                    !.config.devices = remainingDevices,
                    !.errors = errors]

\* brokers[brokerId]
HasBroker(brokers, brokerId) ==
  \E k \in 1..Len(brokers) : brokers[k].id = brokerId

brokerOf(brokers, brokerId) ==
  brokers[CHOOSE k \in 1..Len(brokers) : brokers[k].id = brokerId].broker

\* const defaultId = config.default_broker_id || "hame-2024"
defaultId(cfg) == OrElse(cfg.default_broker_id, "hame-2024")

\* const brokerId = device.broker_id || defaultId
brokerIdOf(device, cfg) == OrElse(device.broker_id, defaultId(cfg))

\* The remote id given to a device that has none (the if / else if / else
\* on salt, topic_encryption_key and device_id); the device has a version.
remoteIdFor(device, broker) ==
  IF /\ ~ Falsy(device.salt)
     /\ device.version # 0
     /\ isSupportVid(device.type, numberToString(device.version))
  THEN IF extractFirstSalt(device.salt) # <<>>
       THEN cq(extractFirstSalt(device.salt), device.mac, device.type)
       ELSE Text(device.device_id)
  ELSE IF OrElse(broker.topic_encryption_key, Undefined) # Undefined
    THEN calculateNewVersionTopicId(broker.topic_encryption_key, device.mac)
  ELSE Text(device.device_id)

\* (devicesByBroker[brokerId] ??= []).push(device)
pushDevice(byBroker, brokerId, device) ==
  IF \E k \in 1..Len(byBroker) : byBroker[k].id = brokerId
  THEN [k \in 1..Len(byBroker) |->
          IF byBroker[k].id = brokerId
          THEN [byBroker[k] EXCEPT !.devices = Append(@, device)]
          ELSE byBroker[k]]
  ELSE Append(byBroker, [id |-> brokerId, devices |-> <<device>>])

\* One round of the loop that binds each device to its broker and resolves
\* its remote id.  logger.debug(isSupportVid(device.type,
\* device.version!.toString())) throws a TypeError for a device without a
\* version.
bindDevice(b) ==
  LET device == b.config.devices[b.i]
      brokerId == brokerIdOf(device, b.config)
      broker == brokerOf(b.brokers, brokerId)
      bound == [device EXCEPT !.broker_id = brokerId]
      resolved ==
        IF NoRemote(bound.remote_id)
        THEN [bound EXCEPT !.remote_id = remoteIdFor(bound, broker)]
        ELSE bound
      mirrored == mirror(resolved, broker)
  IN IF ~ HasBroker(b.brokers, brokerId)
     THEN Fail(b, "Broker not defined")
     ELSE IF NoRemote(bound.remote_id) /\ bound.version = NoNumber
       THEN Fail([b EXCEPT !.config.devices[b.i] = bound],
                 "TypeError: Cannot read properties of undefined")
     ELSE [b EXCEPT !.config.devices[b.i] = mirrored,
                    !.devicesByBroker = pushDevice(@, brokerId, mirrored),
                    !.i = @ + 1,
                    !.pc = IF b.i = Len(b.config.devices)
                           THEN "construct" ELSE "bind"]

\* Variant: one forwarder is constructed per device.
constructPerDevice(b) ==
  [b EXCEPT !.pc = "running",
            !.forwarders =
               [k \in 1..Len(b.config.devices) |->
                  [broker_id |-> b.config.devices[k].broker_id,
                   devices |-> <<b.config.devices[k]>>,
                   inverse_forwarding |-> b.config.inverse_forwarding,
                   remote |-> brokerOf(b.brokers,
                                       b.config.devices[k].broker_id)]],
            !.connections = 2 * Len(b.config.devices)]

\* The loop over Object.entries(devicesByBroker): one MQTTForwarder, with
\* its two connections, per entry.
construct(b) ==
  [b EXCEPT !.pc = "running",
            !.forwarders =
               [k \in 1..Len(b.devicesByBroker) |->
                  [broker_id |-> b.devicesByBroker[k].id,
                   devices |-> b.devicesByBroker[k].devices,
                   inverse_forwarding |-> b.config.inverse_forwarding,
                   remote |-> brokerOf(b.brokers, b.devicesByBroker[k].id)]],
            !.connections = 2 * Len(b.devicesByBroker)]

(***************************************************************************)
(* start() as a state machine, and calls of the helpers on their own.      *)
(***************************************************************************)
\* No forwarder has been constructed.
NoForwarder ==
  /\ config = Undefined
  /\ INSTANCE_ID = Undefined
  /\ now = StartTime
  /\ appMessageHistory = EmptyMap
  /\ rateLimitedMessages = EmptyMap
  /\ processedMessages = EmptyMap
  /\ subscriptions = <<>>
  /\ published = <<>>
  /\ last = NoMessage
  /\ responses = EmptyMap
  /\ nrecv = 0
  /\ conn = Undefined

InitBoot ==
  /\ NoForwarder
  /\ boot = BootIdle
  /\ api = ApiIdle
  /\ probe = NoProbe

\* start() reads config.json and brokers.json.
StartBoot ==
  /\ boot.pc = "idle"
  /\ probe = NoProbe
  /\ \E cfg \in MainConfigs : \E brokers \in Catalogs :
       boot' = Loaded(cfg, brokers)
  /\ UNCHANGED <<fwdVars, conn, api, probe>>

CheckCredentials ==
  /\ boot.pc = "credentials"
  /\ boot' = checkCredentials(boot)
  /\ UNCHANGED <<fwdVars, conn, api, probe>>

FetchDevices ==
  /\ boot.pc = "fetch"
  /\ \E result \in ApiResults : boot' = fetched(boot, result)
  /\ UNCHANGED <<fwdVars, conn, api, probe>>

ApplyInverse ==
  /\ boot.pc = "inverse"
  /\ boot' = applyInverse(boot)
  /\ UNCHANGED <<fwdVars, conn, api, probe>>

GlobalFlip ==
  /\ boot.pc = "flip"
  /\ boot' = globalFlip(boot)
  /\ UNCHANGED <<fwdVars, conn, api, probe>>

AutoSelect ==
  /\ boot.pc = "auto"
  /\ boot' = autoSelectAll(boot)
  /\ UNCHANGED <<fwdVars, conn, api, probe>>

Validate ==
  /\ boot.pc = "validate"
  /\ boot' = cleanAndValidate(boot)
  /\ UNCHANGED <<fwdVars, conn, api, probe>>

Bind ==
  /\ boot.pc = "bind"
  /\ boot' = bindDevice(boot)
  /\ UNCHANGED <<fwdVars, conn, api, probe>>

Construct ==
  /\ boot.pc = "construct"
  /\ boot' = construct(boot)
  /\ UNCHANGED <<fwdVars, conn, api, probe>>

\* Arguments isSupportVid is called with.
ProbeVids ==
  {NoString, <<>>,
   <<"J", "P", "L", "S", "-", "8", "H">>,
   <<"j", "p", "l", "s", "-", "8", "h">>, <<"H", "M", "M", "-", "1">>,
   <<"H", "M", "N", "-", "1">>, <<"H", "M", "B", "-", "1">>,
   <<"H", "M", "A", "-", "1">>, <<"h", "m", "a", "-", "1">>,
   <<"H", "M", "K", "-", "1">>, <<"H", "M", "F", "-", "1">>,
   <<"H", "M", "J", "-", "1">>, <<"H", "M", "E", "-", "2">>,
   <<"H", "M", "E", "-", "4">>, <<"T", "P", "M", "-", "C", "N">>,
   <<"H", "M", "E", "-", "3">>, <<"H", "M", "E", "-", "5">>,
   <<"H", "M", "E", "-", "2", "0">>, <<"H", "M", "G", "-", "5", "0">>,
   <<"H", "M", "I", "-", "1">>, <<"V", "N", "S", "E", "3", "-", "0">>,
   <<"X", "Y", "Z", "-", "1">>}

ProbeVersions ==
  {NoString, <<>>,
   <<"i", "n", "v", "a", "l", "i", "d">>, <<"0">>, <<"1", "1", "5">>,
   <<"1", "1", "6">>, <<"1", "1", "9">>, <<"1", "2", "0">>,
   <<"1", "2", "1">>, <<"1", "2", "2">>, <<"1", "2", "5">>,
   <<"1", "2", "6">>, <<"1", "3", "5">>,
   <<"1", "3", "6">>, <<"1", "3", "6", ".", "0">>, <<"1", "5", "3">>,
   <<"1", "5", "4">>, <<"2", "2", "9">>, <<"2", "3", "0">>,
   <<"2", "3", "0", ".", "5">>, <<".", "5">>}

CallIsSupportVid ==
  /\ boot.pc = "idle"
  /\ probe = NoProbe
  /\ \E vid \in ProbeVids : \E firmwareVersion \in ProbeVersions :
       probe' = [fn |-> "isSupportVid", vid |-> vid,
                 firmwareVersion |-> firmwareVersion,
                 result |-> isSupportVid(vid, firmwareVersion)]
  /\ UNCHANGED <<fwdVars, conn, boot, api>>

CallIsSupportVidLatest ==
  /\ boot.pc = "idle"
  /\ probe = NoProbe
  /\ \E vid \in ProbeVids : \E firmwareVersion \in ProbeVersions :
       probe' = [fn |-> "isSupportVidLatest", vid |-> vid,
                 firmwareVersion |-> firmwareVersion,
                 result |-> isSupportVidLatest(vid, firmwareVersion)]
  /\ UNCHANGED <<fwdVars, conn, boot, api>>

\* Devices autoDetermineBroker and the broker binding are called with.
ProbeTypes ==
  {<<"H", "M", "A", "-", "1">>, <<"h", "m", "a", "-", "1">>,
   <<"H", "M", "A">>, <<"J", "P", "L", "S", "-", "8", "H">>,
   <<"H", "M", "G", "-", "5", "0">>}

ProbeNumbers == {NoNumber, 0, 135, 136, 225, 226, 230, 231, 232}

ProbeDevices ==
  {[StaticDevice EXCEPT !.type = t, !.version = v, !.broker_id = id] :
     t \in ProbeTypes, v \in ProbeNumbers,
     id \in {Undefined, "hame-2024", "nowhere"}}

ProbeCatalogs == Catalogs \cup {<<>>, <<Broker2024>>}

CallAutoDetermineBroker ==
  /\ boot.pc = "idle"
  /\ probe = NoProbe
  /\ \E device \in ProbeDevices : \E brokers \in ProbeCatalogs :
       /\ device.broker_id = Undefined
       /\ probe' = [fn |-> "autoDetermineBroker", device |-> device,
                    brokers |-> brokers,
                    result |-> autoDetermineBroker(device, brokers)]
  /\ UNCHANGED <<fwdVars, conn, boot, api>>

\* What start() does to bind one device to a broker: the auto-selection,
\* the default, the lookup in the catalog.
resolveBroker(device, cfg, brokers) ==
  [device |-> [autoSelect(device, brokers) EXCEPT
                 !.broker_id = brokerIdOf(autoSelect(device, brokers), cfg)],
   throws |-> ~ HasBroker(brokers,
                          brokerIdOf(autoSelect(device, brokers), cfg))]

CallResolveBroker ==
  /\ boot.pc = "idle"
  /\ probe = NoProbe
  /\ \E device \in ProbeDevices : \E brokers \in ProbeCatalogs :
       \E cfg \in MainConfigs :
         /\ cfg.username # Undefined
         /\ cfg.inverse_forwarding = Undefined
         /\ cfg.inverse_forwarding_device_ids = NoString
         /\ probe' = [fn |-> "resolveBroker", device |-> device,
                      brokers |-> brokers, cfg |-> cfg,
                      result |-> resolveBroker(device, cfg, brokers)]
  /\ UNCHANGED <<fwdVars, conn, boot, api>>

NextBoot ==
  \/ StartBoot \/ CheckCredentials \/ FetchDevices \/ ApplyInverse
  \/ GlobalFlip \/ AutoSelect \/ Validate \/ Bind \/ Construct
  \/ CallIsSupportVid \/ CallIsSupportVidLatest
  \/ CallAutoDetermineBroker \/ CallResolveBroker

SpecBoot == InitBoot /\ [][NextBoot]_vars

(***************************************************************************)
(* The vendor API client (hame_api.ts): fetchDevices and its two calls,    *)
(* fetchDeviceToken and fetchDeviceList, each wrapped in withRetry.  One   *)
(* step is one HTTP request together with the catch block that follows it. *)
(***************************************************************************)
DEFAULT_RETRY_OPTIONS ==
  [maxRetries |-> 3, baseDelayMs |-> 1000, maxDelayMs |-> 10000,
   backoffMultiplier |-> 2]

\* { ...DEFAULT_RETRY_OPTIONS, ...{ maxRetries: 2 } }
fetchDevicesOptions == [DEFAULT_RETRY_OPTIONS EXCEPT !.maxRetries = 2]

\* What an attempt can throw.  statusCode is NoNumber unless the error is an
\* HttpError; code is Undefined unless the error carries a string code.
NoError == [name |-> "none", statusCode |-> NoNumber, code |-> Undefined]

HttpError(statusCode) ==
  [name |-> "HttpError", statusCode |-> statusCode, code |-> Undefined]

\* node-fetch's error for a failed request, carrying the system error code
SystemError(code) ==
  [name |-> "FetchError", statusCode |-> NoNumber, code |-> code]

\* throw new Error("Unexpected API response code: ...")
UnexpectedResponse ==
  [name |-> "Error", statusCode |-> NoNumber, code |-> Undefined]

\* resp.json() on a body that is not JSON
InvalidJson ==
  [name |-> "InvalidJson", statusCode |-> NoNumber, code |-> Undefined]

Failures ==
  {HttpError(401), HttpError(499), HttpError(500), HttpError(503),
   SystemError("ETIMEDOUT"), SystemError("ECONNRESET"),
   SystemError("ENOTFOUND"), UnexpectedResponse, InvalidJson}

Success == [name |-> "ok", statusCode |-> 200, code |-> Undefined]

\* A classification that would also retry client errors.
shouldRetryAnyHttpError(error, statusCode) ==
  IF statusCode # NoNumber THEN statusCode >= 400
  ELSE IF error.code # Undefined
    THEN error.code \in {"ETIMEDOUT", "ECONNRESET"}
  ELSE FALSE

shouldRetryError(error, statusCode) ==
  IF statusCode # NoNumber THEN statusCode >= 500
  ELSE IF error.code # Undefined
    THEN error.code \in {"ETIMEDOUT", "ECONNRESET"}
  ELSE FALSE

\* Math.min
min(a, b) == IF a <= b THEN a ELSE b

\* A catch block that would allow one retry more than maxRetries.
caughtOneMore(attempt, error, options) ==
  LET lastStatusCode ==
        IF error.name = "HttpError" THEN error.statusCode ELSE NoNumber
  IN IF attempt <= options.maxRetries + 1
        /\ shouldRetryError(error, lastStatusCode)
     THEN [retry |-> TRUE,
           delay |-> min(options.baseDelayMs
                           * options.backoffMultiplier ^ (attempt - 1),
                         options.maxDelayMs)]
     ELSE [retry |-> FALSE, delay |-> 0]

\* The catch block of withRetry's loop for attempt number `attempt`: whether
\* the loop goes round again, and after which delay; otherwise it breaks and
\* lastError is thrown.
caught(attempt, error, options) ==
  LET lastStatusCode ==
        IF error.name = "HttpError" THEN error.statusCode ELSE NoNumber
  IN IF attempt <= options.maxRetries
        /\ shouldRetryError(error, lastStatusCode)
     THEN [retry |-> TRUE,
           delay |-> min(options.baseDelayMs
                           * options.backoffMultiplier ^ (attempt - 1),
                         options.maxDelayMs)]
     ELSE [retry |-> FALSE, delay |-> 0]

\* fetchDevices(mailbox, password) is called: attempt 1 of the composite
\* operation starts with attempt 1 of fetchDeviceToken.
Called ==
  [pc |-> "token", attempt |-> 1, tokenAttempt |-> 1, listAttempt |-> 0,
   requests |-> 0, lastError |-> NoError, lastDelay |-> 0, slept |-> 0,
   retried |-> FALSE, result |-> NoError]

\* Variant: the error left when nothing is retried any more is swallowed.
failedAttemptSwallowed(a, error) ==
  LET n == IF a.pc = "token" THEN a.tokenAttempt ELSE a.listAttempt
      inner == caught(n, error, DEFAULT_RETRY_OPTIONS)
      outer == caught(a.attempt, error, fetchDevicesOptions)
      b == [a EXCEPT !.requests = @ + 1, !.lastError = error]
  IN IF inner.retry
       THEN [b EXCEPT !.tokenAttempt = IF a.pc = "token" THEN @ + 1 ELSE @,
                      !.listAttempt = IF a.pc = "list" THEN @ + 1 ELSE @,
                      !.lastDelay = inner.delay,
                      !.slept = @ + inner.delay,
                      !.retried = TRUE]
     ELSE IF outer.retry
       THEN [b EXCEPT !.pc = "token", !.attempt = @ + 1,
                      !.tokenAttempt = 1, !.listAttempt = 0,
                      !.lastDelay = outer.delay,
                      !.slept = @ + outer.delay,
                      !.retried = TRUE]
     ELSE [b EXCEPT !.pc = "done", !.lastDelay = 0, !.retried = FALSE,
                    !.result = Success]

\* An attempt of the individual call a.pc failed with `error`: the inner
\* withRetry retries it, or throws it into the composite withRetry, which
\* starts the whole operation again or throws it to the caller.
failedAttempt(a, error) ==
  LET n == IF a.pc = "token" THEN a.tokenAttempt ELSE a.listAttempt
      inner == caught(n, error, DEFAULT_RETRY_OPTIONS)
      outer == caught(a.attempt, error, fetchDevicesOptions)
      b == [a EXCEPT !.requests = @ + 1, !.lastError = error]
  IN IF inner.retry
       THEN [b EXCEPT !.tokenAttempt = IF a.pc = "token" THEN @ + 1 ELSE @,
                      !.listAttempt = IF a.pc = "list" THEN @ + 1 ELSE @,
                      !.lastDelay = inner.delay,
                      !.slept = @ + inner.delay,
                      !.retried = TRUE]
     ELSE IF outer.retry
       THEN [b EXCEPT !.pc = "token", !.attempt = @ + 1,
                      !.tokenAttempt = 1, !.listAttempt = 0,
                      !.lastDelay = outer.delay,
                      !.slept = @ + outer.delay,
                      !.retried = TRUE]
     ELSE [b EXCEPT !.pc = "done", !.lastDelay = 0, !.retried = FALSE,
                    !.result = error]

\* An attempt of the individual call a.pc returned: fetchDeviceToken hands
\* the token to fetchDeviceList, fetchDeviceList ends fetchDevices.
succeededAttempt(a) ==
  IF a.pc = "token"
    THEN [a EXCEPT !.pc = "list", !.listAttempt = 1, !.requests = @ + 1]
  ELSE [a EXCEPT !.pc = "done", !.requests = @ + 1, !.result = Success]

CallFetchDevices ==
  /\ api.pc = "idle"
  /\ api' = Called
  /\ UNCHANGED <<fwdVars, conn, boot, probe>>

RequestToken ==
  /\ api.pc = "token"
  /\ \/ api' = succeededAttempt(api)
     \/ \E error \in Failures : api' = failedAttempt(api, error)
  /\ UNCHANGED <<fwdVars, conn, boot, probe>>

RequestList ==
  /\ api.pc = "list"
  /\ \/ api' = succeededAttempt(api)
     \/ \E error \in Failures : api' = failedAttempt(api, error)
  /\ UNCHANGED <<fwdVars, conn, boot, probe>>

NextRetry ==
  \/ CallFetchDevices
  \/ RequestToken
  \/ RequestList

SpecRetry == InitBoot /\ [][NextRetry]_vars

(***************************************************************************)
(* The specification's own terms (spec.md, 4.3 and 4.4), used to state the *)
(* claims: cloud is the remote connection, local the config connection.    *)
(***************************************************************************)
ClaimInv(d) ==
  Coalesce(Coalesce(d.inverse_forwarding, config.inverse_forwarding),
           "false") = "true"

ClaimMirror(d) == d.use_remote_topic_id = "true"

ClaimCloudPrefix ==
  IF config.remote.topic_prefix = Undefined THEN "hame_energy/"
  ELSE config.remote.topic_prefix

ClaimPrefix(d, side) ==
  IF side = remoteBroker \/ ClaimMirror(d) THEN ClaimCloudPrefix
  ELSE IF config.remote.local_topic_prefix = Undefined THEN ClaimCloudPrefix
  ELSE config.remote.local_topic_prefix

ClaimId(d, side) ==
  IF side = remoteBroker \/ ClaimMirror(d) THEN d.remote_id ELSE d.mac

ClaimSubscription(d, side) ==
  IF side = remoteBroker
  THEN <<ClaimPrefix(d, side), d.type,
         IF ClaimInv(d) THEN "device" ELSE "App", ClaimId(d, side), "ctrl">>
  ELSE <<ClaimPrefix(d, side), d.type,
         IF ClaimInv(d) THEN "App" ELSE "device", ClaimId(d, side), "ctrl">>

\* The message handled last caused the most recent publish() call.
PublishedByLast ==
  published # <<>> /\ published[Len(published)].recv = nrecv

LastPublish == published[Len(published)]

\* A step in which one message is handled.
HandlesMessage == nrecv' = nrecv + 1

\* Earlier publish() calls toward the cloud of App messages of device key k
\* carrying code c.
CloudAppPublishes(k, c) ==
  {i \in DOMAIN published :
     /\ published[i].client = remoteBroker
     /\ published[i].topic[3] = "App"
     /\ published[i].deviceKey = k
     /\ codeOf(published[i].message) = c}

(***************************************************************************)
(* C1  Loop rejection: handling a message whose relayInstanceId user       *)
(* property is a string (the forwarder's own tag or any other) issues no   *)
(* publish.                                                                *)
(***************************************************************************)
C1_LoopRejection ==
  [][(HandlesMessage /\ last'.packet.relayInstanceId.typeof = "string")
       => published' = published]_vars

\* A message tagged by another relay arrived on a subscribed topic after
\* something had been forwarded, and was dropped.
C1_Witness ==
  /\ last.outcome = "loop"
  /\ last.packet.relayInstanceId.typeof = "string"
  /\ last.packet.relayInstanceId.value # INSTANCE_ID
  /\ \E i \in DOMAIN subscriptions[last.source] :
       subscriptions[last.source][i] = last.topic
  /\ published # <<>>
  /\ ~ PublishedByLast

(***************************************************************************)
(* C2  Device-response gating, as claimed: a device-role message is        *)
(* published only if an App-role message of the same deviceKey was         *)
(* published by the forwarder within the last 1 s, and the history entry   *)
(* is absent right after the device message is forwarded.                  *)
(***************************************************************************)
C2_DeviceGatingAsClaimed ==
  [][(/\ HandlesMessage
      /\ Len(published') = Len(published) + 1
      /\ last'.topic[3] = "device")
       => LET k == deviceKey(config.devices[last'.device])
          IN /\ \E i \in DOMAIN published :
                  /\ published[i].topic[3] = "App"
                  /\ published[i].deviceKey = k
                  /\ now - published[i].at <= MESSAGE_HISTORY_TIMEOUT
             /\ ~ Has(appMessageHistory', k)]_vars

(***************************************************************************)
(* C3  Rate limit: two publishes toward the cloud of App messages of the   *)
(* same device carrying the same rate-limited code are at least 59,900 ms  *)
(* apart, so no window [t, t + 59,900) holds more than one.                *)
(***************************************************************************)
C3_RateLimit ==
  \A i, j \in DOMAIN published :
    (/\ i < j
     /\ codeOf(published[i].message) \in RATE_LIMITED_CODES
     /\ i \in CloudAppPublishes(published[j].deviceKey,
                                codeOf(published[j].message))
     /\ j \in CloudAppPublishes(published[j].deviceKey,
                                codeOf(published[j].message)))
      => published[j].at - published[i].at >= RATE_LIMIT_INTERVAL

\* Two such publishes happened, the second one once the interval had passed.
C3_Witness ==
  \E i, j \in DOMAIN published :
    /\ i < j
    /\ codeOf(published[i].message) \in RATE_LIMITED_CODES
    /\ i \in CloudAppPublishes(published[j].deviceKey,
                               codeOf(published[j].message))
    /\ j \in CloudAppPublishes(published[j].deviceKey,
                               codeOf(published[j].message))
    /\ nrecv = 3

(***************************************************************************)
(* C4  Direction policy: a message that is published matched a device and  *)
(* is in none of the combinations (cloud, device, inv=false), (cloud, App, *)
(* inv=true), (local, device, inv=true), (local, App, inv=false).          *)
(***************************************************************************)
ClaimForbidden(source, role, inv) ==
  \/ source = remoteBroker /\ role = "device" /\ ~ inv
  \/ source = remoteBroker /\ role = "App" /\ inv
  \/ source = configBroker /\ role = "device" /\ inv
  \/ source = configBroker /\ role = "App" /\ ~ inv

C4_DirectionPolicy ==
  PublishedByLast =>
    /\ last.device # 0
    /\ ~ ClaimForbidden(last.source, last.topic[3],
                        ClaimInv(config.devices[last.device]))

\* A device-role message of a device with inv=false arrived from the cloud
\* while its correlation window was open, and was not published.
C4_Witness ==
  /\ last.device # 0
  /\ last.packet.relayInstanceId.typeof = "undefined"
  /\ last.source = remoteBroker
  /\ last.topic[3] = "device"
  /\ ~ ClaimInv(config.devices[last.device])
  /\ Has(appMessageHistory, deviceKey(config.devices[last.device]))
  /\ ~ PublishedByLast

(***************************************************************************)
(* C5  Topic rewriting: a published topic is                               *)
(* prefix(d, target) + d.type + "/" + role + "/" + id(d, target) + "/ctrl" *)
(* for the matched device d and the role of the incoming topic, on the     *)
(* side opposite to the source, and the payload is the received one.       *)
(***************************************************************************)
C5_TopicRewriting ==
  PublishedByLast =>
    /\ last.device # 0
    /\ last.topic[3] \in {"device", "App"}
    /\ LastPublish.client = otherBroker(last.source)
    /\ LastPublish.topic =
         <<ClaimPrefix(config.devices[last.device], LastPublish.client),
           config.devices[last.device].type,
           last.topic[3],
           ClaimId(config.devices[last.device], LastPublish.client),
           "ctrl">>
    /\ LastPublish.message = last.message

\* A forward whose prefix and identifier both changed.
C5_Witness ==
  /\ PublishedByLast
  /\ LastPublish.topic[1] # last.topic[1]
  /\ LastPublish.topic[4] # last.topic[4]
  /\ LastPublish.topic[3] = last.topic[3]

(***************************************************************************)
(* C6  Every published message carries the user property relayInstanceId   *)
(* equal to the forwarder's tag, and the tag never changes.                *)
(***************************************************************************)
C6_RelayTag ==
  [][/\ INSTANCE_ID' = INSTANCE_ID
     /\ \A i \in DOMAIN published' :
          published'[i].options.userProperties.relayInstanceId
            = INSTANCE_ID']_vars

\* Messages were published toward both sides.
C6_Witness ==
  /\ \E i \in DOMAIN published : published[i].client = remoteBroker
  /\ \E i \in DOMAIN published : published[i].client = configBroker
  /\ \A i \in DOMAIN published :
       published[i].options.userProperties.relayInstanceId = INSTANCE_ID

C8_OneResponsePerRequest ==
  \A k \in DOMAIN responses : responses[k] <= 1

\* A second device-role message arrived inside the 1 s window of a
\* forwarded App message and was dropped.
C8_Witness ==
  /\ last.outcome = "no-recent-app"
  /\ last.device # 0
  /\ Has(responses, deviceKey(config.devices[last.device]))
  /\ responses[deviceKey(config.devices[last.device])] = 1
  /\ \E i \in DOMAIN published :
       /\ published[i].topic[3] = "App"
       /\ published[i].deviceKey = deviceKey(config.devices[last.device])
       /\ now - published[i].at <= MESSAGE_HISTORY_TIMEOUT

(***************************************************************************)
(* C9  Rate limiter release: an App message toward the cloud with a        *)
(* rate-limited code is suppressed exactly when the last forwarded one of  *)
(* the same device and code is less than 59,900 ms old; the first one and  *)
(* one at least 59,900 ms after the last forwarded one are forwarded, and  *)
(* a suppressed message leaves the recorded time as it was.                *)
(***************************************************************************)
C9_RateLimiterRelease ==
  [][(/\ HandlesMessage
      /\ last'.outcome \in {"forwarded", "rate-limited"}
      /\ last'.source = configBroker
      /\ last'.topic[3] = "App"
      /\ codeOf(last'.message) \in RATE_LIMITED_CODES)
       => LET k == deviceKey(config.devices[last'.device])
              prior == CloudAppPublishes(k, codeOf(last'.message))
              recent == \E i \in prior :
                          /\ \A j \in prior : j <= i
                          /\ now - published[i].at < RATE_LIMIT_INTERVAL
          IN /\ recent => /\ published' = published
                          /\ rateLimitedMessages' = rateLimitedMessages
             /\ ~ recent => Len(published') = Len(published) + 1]_vars

\* First forwarded, second suppressed, third forwarded once 59,900 ms had
\* passed since the first.
C9_Witness ==
  /\ nrecv = 3
  /\ Len(published) = 2
  /\ PublishedByLast
  /\ published[1].recv = 1
  /\ codeOf(published[1].message) \in RATE_LIMITED_CODES
  /\ CloudAppPublishes(published[1].deviceKey, codeOf(published[1].message))
       = {1, 2}
  /\ published[2].at - published[1].at = RATE_LIMIT_INTERVAL
  /\ rateLimitedMessages[rateLimitKey(published[1].deviceKey,
                                      published[1].message)]
       = published[2].at

(***************************************************************************)
(* C10  Ordering: publishes are issued in the order in which the messages  *)
(* that caused them were received; dropped messages do not reorder them.   *)
(***************************************************************************)
C10_Ordering ==
  \A i, j \in DOMAIN published :
    i < j => published[i].recv < published[j].recv

\* Two messages of one device from the same side were forwarded, with a
\* dropped message between them.
C10_Witness ==
  /\ Len(published) = 2
  /\ published[1].deviceKey = published[2].deviceKey
  /\ published[1].client = published[2].client
  /\ published[2].recv = published[1].recv + 2

(***************************************************************************)
(* C11  Subscribe once: whatever connect, disconnect, offline and error    *)
(* events occurred on either session, the forwarder has issued exactly one *)
(* subscribe call and registered exactly one message listener per side,    *)
(* every message that arrived was handled once (or is about to be), and    *)
(* there are no more publishes than messages handled.                      *)
(***************************************************************************)
C11_SubscribeOnce ==
  /\ \A b \in Brokers :
       conn.subscribeCalls[b] = 1 /\ conn.messageHandlers[b] = 1
  /\ Len(conn.pending) <= 1
  /\ nrecv + Len(conn.pending) = conn.emitted
  /\ Len(published) <= nrecv

\* A message that arrived on a session after its reconnect was handled and
\* forwarded.
C11_Witness ==
  /\ conn.handledSession = 2
  /\ conn.pending = <<>>
  /\ PublishedByLast
  /\ last.outcome = "forwarded"

(***************************************************************************)
(* C12  After bootstrap every surviving device belongs to exactly one      *)
(* forwarder, the one of its resolved broker_id, and exactly one forwarder *)
(* is constructed per broker id that has at least one device, none for a   *)
(* broker without device.                                                  *)
(***************************************************************************)
ForwardersOf(d) ==
  {f \in 1..Len(boot.forwarders) :
     \E j \in 1..Len(boot.forwarders[f].devices) :
       boot.forwarders[f].devices[j] = d}

RECURSIVE DevicesIn(_, _)
DevicesIn(forwarders, n) ==
  IF n = 0 THEN 0
  ELSE DevicesIn(forwarders, n - 1) + Len(forwarders[n].devices)

C12_OneForwarderPerBroker ==
  boot.pc = "running" =>
    /\ \A k \in 1..Len(boot.config.devices) :
         /\ Cardinality(ForwardersOf(boot.config.devices[k])) = 1
         /\ \A f \in ForwardersOf(boot.config.devices[k]) :
              boot.forwarders[f].broker_id
                = boot.config.devices[k].broker_id
    /\ DevicesIn(boot.forwarders, Len(boot.forwarders))
         = Len(boot.config.devices)
    /\ \A f, g \in 1..Len(boot.forwarders) :
         boot.forwarders[f].broker_id = boot.forwarders[g].broker_id
           => f = g
    /\ {boot.forwarders[f].broker_id : f \in 1..Len(boot.forwarders)}
         = {boot.config.devices[k].broker_id :
              k \in 1..Len(boot.config.devices)}

\* Two devices of the same broker share one forwarder while two brokers of
\* the catalog have no device and no forwarder.
C12_Witness ==
  /\ boot.pc = "running"
  /\ Len(boot.config.devices) = 2
  /\ Len(boot.forwarders) = 1
  /\ Len(boot.brokers) = 3

(***************************************************************************)
(* C13  Per-device validation: of the devices the API returned, those with *)
(* a missing id, mac or type, an id length other than 12 or 22..24, or a   *)
(* mac that is not 12 hex characters after stripping colons are dropped    *)
(* with a recorded error and the others are kept in their order; startup   *)
(* fails when none survives, and when at least one survives (and its       *)
(* broker is defined) bootstrap goes on to construct the forwarders,       *)
(* whatever its version or salt.                                           *)
(***************************************************************************)
ClaimValid(raw) ==
  /\ ~ Falsy(raw.devid) /\ ~ Falsy(raw.mac) /\ ~ Falsy(raw.type)
  /\ Len(trim(raw.devid)) \in {12, 22, 23, 24}
  /\ Len(stripColons(trim(raw.mac))) = 12
  /\ \A k \in 1..Len(stripColons(trim(raw.mac))) :
       IsHexChar(stripColons(trim(raw.mac))[k])

ClaimSurvivors == SelectSeq(boot.apiDevices, ClaimValid)

C13_ValidationAsClaimed ==
  (boot.pc \in {"exited", "running"} /\ boot.apiDevices # <<>>) =>
    IF ClaimSurvivors = <<>> THEN boot.exitCode = 1
    ELSE boot.thrown # "Broker not defined" =>
           /\ boot.pc = "running"
           /\ Len(boot.config.devices) = Len(ClaimSurvivors)
           /\ \A k \in 1..Len(ClaimSurvivors) :
                boot.config.devices[k].device_id
                  = trim(ClaimSurvivors[k].devid)
           /\ Len(boot.errors)
                = Len(boot.apiDevices) - Len(ClaimSurvivors)

(***************************************************************************)
(* C14  Startup failure on API failure: when credentials are missing, when *)
(* the vendor API fetch fails, or when it returns zero devices, start()    *)
(* constructs no forwarder, opens no broker connection and exits with code *)
(* 1; the devices of the static config are never used instead.             *)
(***************************************************************************)
StartupFailed ==
  /\ boot.pc = "exited" /\ boot.exitCode = 1
  /\ boot.forwarders = <<>> /\ boot.connections = 0

CredentialsMissing ==
  boot.config.username = Undefined \/ boot.config.password = Undefined

C14_StartupFailure ==
  boot.pc # "idle" =>
    /\ (boot.pc \notin {"idle", "credentials"} /\ CredentialsMissing)
         => StartupFailed /\ boot.thrown = "Username and password are required"
    /\ (boot.pc \notin {"idle", "credentials", "fetch"}
          /\ boot.apiDevices = <<>>) => StartupFailed
    /\ boot.thrown \in {"Unable to fetch device information: API error",
                        "Unable to fetch device information: No devices found"}
         => StartupFailed /\ boot.apiDevices = <<>>
    /\ boot.pc = "running" =>
         \A f \in 1..Len(boot.forwarders) :
           \A k \in 1..Len(boot.forwarders[f].devices) :
             \E a \in 1..Len(boot.apiDevices) :
               boot.forwarders[f].devices[k].device_id
                 = trim(boot.apiDevices[a].devid)

C14_Witness ==
  /\ boot.pc = "exited"
  /\ boot.thrown = "Unable to fetch device information: API error"
  /\ boot.config.devices = <<StaticDevice>>
  /\ boot.forwarders = <<>>

(***************************************************************************)
(* C15  Retry budget, as claimed: each individual vendor API call is       *)
(* attempted at most 3 times and the composite fetchDevices at most 2      *)
(* times.                                                                  *)
(***************************************************************************)
C15_BudgetAsClaimed ==
  api.pc # "idle" =>
    api.tokenAttempt <= 3 /\ api.listAttempt <= 3 /\ api.attempt <= 2

(***************************************************************************)
(* C15  Retry budget: under any sequence of failures each invocation of an *)
(* individual vendor API call makes at most 4 attempts (the first one and  *)
(* maxRetries = 3 retries), and fetchDevices runs the composite operation  *)
(* at most 3 times (the first run and maxRetries = 2 retries); so one      *)
(* fetchDevices issues at most 3 * (4 + 4) requests.                       *)
(***************************************************************************)
C15_RetryBudget ==
  api.pc # "idle" =>
    /\ api.tokenAttempt <= DEFAULT_RETRY_OPTIONS.maxRetries + 1
    /\ api.listAttempt <= DEFAULT_RETRY_OPTIONS.maxRetries + 1
    /\ api.attempt <= fetchDevicesOptions.maxRetries + 1
    /\ api.requests <= 3 * (4 + 4)

C15_Witness ==
  /\ api.pc = "list"
  /\ api.attempt = 3 /\ api.listAttempt = 4 /\ api.requests = 23

(***************************************************************************)
(* C16  Retry classification: a failed attempt is retried only when it is  *)
(* an HTTP error with status >= 500 or a transport error whose code is     *)
(* ETIMEDOUT or ECONNRESET; any other failure (HTTP 4xx, an unexpected     *)
(* response code, a malformed response) is thrown to the caller of         *)
(* fetchDevices at once: no further attempt, no delay, and when nothing    *)
(* was retried before it, after exactly one attempt of the failing call.   *)
(***************************************************************************)
ClaimRetryable(error) ==
  \/ error.name = "HttpError" /\ error.statusCode >= 500
  \/ error.name # "HttpError" /\ error.code \in {"ETIMEDOUT", "ECONNRESET"}

C16_RetryClassification ==
  (api.pc # "idle" /\ api.lastError # NoError) =>
    /\ api.retried => ClaimRetryable(api.lastError)
    /\ ~ ClaimRetryable(api.lastError) =>
         /\ api.pc = "done" /\ api.result = api.lastError
         /\ api.lastDelay = 0 /\ ~ api.retried
         /\ api.slept = 0 =>
              /\ api.attempt = 1 /\ api.tokenAttempt = 1
              /\ api.listAttempt <= 1 /\ api.requests <= 2

C16_Witness ==
  /\ api.pc = "done" /\ api.result = UnexpectedResponse
  /\ api.requests = 1 /\ api.slept = 0 /\ api.attempt = 1

(***************************************************************************)
(* C17  Broker auto-selection: for a device whose type has the form        *)
(* family-gen, autoDetermineBroker returns a broker whose                  *)
(* min_versions[family] is <= the device version and is the greatest such  *)
(* threshold in the catalog; it returns no broker exactly when the version *)
(* is absent or no broker declares a threshold for the family that is <=   *)
(* the version.                                                            *)
(***************************************************************************)
ClaimAccepting(device, brokers) ==
  {i \in 1..Len(brokers) :
     /\ baseTypeOf(device.type) \in DOMAIN brokers[i].broker.min_versions
     /\ brokers[i].broker.min_versions[baseTypeOf(device.type)]
          <= device.version}

C17_AutoSelection ==
  (probe.fn = "autoDetermineBroker"
     /\ baseTypeOf(probe.device.type) # NoString) =>
    LET acc == ClaimAccepting(probe.device, probe.brokers)
        family == baseTypeOf(probe.device.type)
    IN IF probe.device.version = NoNumber \/ acc = {}
       THEN probe.result = Undefined
       ELSE \E i \in acc :
              /\ probe.brokers[i].id = probe.result
              /\ \A j \in acc :
                   probe.brokers[j].broker.min_versions[family]
                     <= probe.brokers[i].broker.min_versions[family]

C17_Witness ==
  /\ probe.fn = "autoDetermineBroker"
  /\ probe.device.version = 231
  /\ Len(probe.brokers) = 3
  /\ Cardinality(ClaimAccepting(probe.device, probe.brokers)) = 2
  /\ probe.result = "hame-2026"

(***************************************************************************)
(* C18  Broker binding: a device with an explicit broker_id keeps it; a    *)
(* device without one for which auto-selection yields nothing is bound to  *)
(* default_broker_id, "hame-2024" when that is unset; and when the         *)
(* resolved broker id is absent from the catalog the binding throws, which *)
(* ends startup with exit code 1 and no forwarder.                         *)
(***************************************************************************)
ClaimCatalogIds(brokers) == {brokers[k].id : k \in 1..Len(brokers)}

C18_BrokerBinding ==
  /\ probe.fn = "resolveBroker" =>
       LET bound == probe.result.device.broker_id
       IN /\ probe.device.broker_id # Undefined
               => bound = probe.device.broker_id
          /\ (probe.device.broker_id = Undefined
                /\ autoDetermineBroker(probe.device, probe.brokers)
                     = Undefined)
               => bound = IF probe.cfg.default_broker_id = Undefined
                          THEN "hame-2024"
                          ELSE probe.cfg.default_broker_id
          /\ probe.result.throws
               <=> bound \notin ClaimCatalogIds(probe.brokers)
  /\ (boot.pc # "idle" /\ boot.thrown = "Broker not defined") =>
       /\ boot.pc = "exited" /\ boot.exitCode = 1
       /\ boot.forwarders = <<>> /\ boot.connections = 0
  /\ boot.pc = "running" =>
       \A f \in 1..Len(boot.forwarders) :
         /\ boot.forwarders[f].broker_id \in ClaimCatalogIds(boot.brokers)
         /\ \A k \in 1..Len(boot.forwarders[f].devices) :
              boot.forwarders[f].devices[k].broker_id
                = boot.forwarders[f].broker_id

C18_Witness ==
  /\ probe.fn = "resolveBroker"
  /\ probe.device.broker_id = Undefined
  /\ autoDetermineBroker(probe.device, probe.brokers) = Undefined
  /\ probe.cfg.default_broker_id = Undefined
  /\ probe.result.device.broker_id = "hame-2024"
  /\ ~ probe.result.throws

(***************************************************************************)
(* C19  Remote-id priority, as claimed: after bootstrap the remote id of   *)
(* every device is the salted form when the device has a salt and its type *)
(* and firmware pass the firmware gate; otherwise the keyed-MAC form when  *)
(* its broker has a topic_encryption_key; otherwise the device_id.  The    *)
(* keyed-MAC form is never skipped in favour of device_id while the broker *)
(* has a key and the salted form is not produced.                          *)
(***************************************************************************)
ClaimSalted(d) ==
  /\ ~ Falsy(d.salt)
  /\ isSupportVid(d.type, numberToString(d.version))

ClaimHasKey(broker) == broker.topic_encryption_key # Undefined

C19_RemoteIdAsClaimed ==
  boot.pc = "running" =>
    \A f \in 1..Len(boot.forwarders) :
      \A k \in 1..Len(boot.forwarders[f].devices) :
        LET d == boot.forwarders[f].devices[k]
            broker == boot.forwarders[f].remote
        IN /\ (ClaimHasKey(broker) /\ d.remote_id.form # "salted")
                => d.remote_id = calculateNewVersionTopicId(
                                   broker.topic_encryption_key, d.mac)
           /\ IF ClaimSalted(d) THEN d.remote_id.form = "salted"
              ELSE IF ClaimHasKey(broker) THEN d.remote_id.form = "keyed"
              ELSE d.remote_id = Text(d.device_id)

(***************************************************************************)
(* The firmware-gate table in the terms of the claim: the threshold of an  *)
(* upper-cased vid (NoNumber when the table has none), and the gate it     *)
(* defines for a vid and a version text.                                   *)
(***************************************************************************)
ClaimThreshold(VID) ==
  IF \E v \in {<<"J", "P", "L", "S">>, <<"H", "M", "M">>, <<"H", "M", "N">>} :
       startsWith(VID, v) THEN 136
  ELSE IF \E v \in {<<"H", "M", "B">>, <<"H", "M", "A">>, <<"H", "M", "K">>,
                     <<"H", "M", "F">>} : startsWith(VID, v) THEN 230
  ELSE IF startsWith(VID, <<"H", "M", "J">>) THEN 116
  ELSE IF VID \in {<<"H", "M", "E", "-", "2">>, <<"H", "M", "E", "-", "4">>,
                   <<"T", "P", "M", "-", "C", "N">>} THEN 122
  ELSE IF VID \in {<<"H", "M", "E", "-", "3">>, <<"H", "M", "E", "-", "5">>}
    THEN 120
  ELSE IF startsWith(VID, <<"H", "M", "G">>) THEN 154
  ELSE NoNumber

ClaimGate(vid, firmwareVersion) ==
  /\ ~ Falsy(vid) /\ ~ Falsy(firmwareVersion)
  /\ parseFloatFloor(firmwareVersion) # NoNumber
  /\ ClaimThreshold(toUpperCase(vid)) # NoNumber
  /\ parseFloatFloor(firmwareVersion) >= ClaimThreshold(toUpperCase(vid))

IsGateCall == probe.fn \in {"isSupportVid", "isSupportVidLatest"}

(***************************************************************************)
(* C20  Firmware gate, as claimed: in every revision isSupportVid(vid,     *)
(* version) is true exactly when the numeric version is >= the threshold   *)
(* of the vid's family in the table JPLS/HMM/HMN 136, HMB/HMA/HMK/HMF 230, *)
(* HMJ 116, HME-2/HME-4/TPM-CN 122, HME-3/HME-5 120, HMG 154, and false    *)
(* for every other vid.                                                    *)
(***************************************************************************)
C20_GateAsClaimed ==
  IsGateCall => (probe.result <=> ClaimGate(probe.vid, probe.firmwareVersion))

(***************************************************************************)
(* C20  Firmware gate: isSupportVid(vid, version) is true exactly when the *)
(* numeric version is >= the threshold of the vid's family in the table    *)
(* above, compared case-insensitively on vid, and false for an empty, null *)
(* or non-numeric vid or version; for a vid outside the table it is false, *)
(* except that the later revision of topic.ts also returns true for a vid  *)
(* with prefix HMI and a version >= 126 and for a vid with prefix VNSE3    *)
(* and any numeric version.                                                *)
(***************************************************************************)
C20_FirmwareGate ==
  IsGateCall =>
    LET VID == toUpperCase(probe.vid)
        version == parseFloatFloor(probe.firmwareVersion)
        added ==
          /\ probe.fn = "isSupportVidLatest"
          /\ ~ Falsy(probe.vid) /\ ~ Falsy(probe.firmwareVersion)
          /\ version # NoNumber
          /\ \/ startsWith(VID, <<"H", "M", "I">>) /\ version >= 126
             \/ startsWith(VID, <<"V", "N", "S", "E", "3">>)
    IN probe.result
         <=> (ClaimGate(probe.vid, probe.firmwareVersion) \/ added)

C20_Witness ==
  /\ probe.fn = "isSupportVidLatest"
  /\ probe.vid = <<"H", "M", "I", "-", "1">>
  /\ probe.firmwareVersion = <<"1", "2", "6">>
  /\ probe.result
  /\ ~ ClaimGate(probe.vid, probe.firmwareVersion)

(***************************************************************************)
(* C21  Firmware gate, newer families, as claimed: isSupportVid accepts a  *)
(* vid of family HMI exactly when the numeric firmware version is >= 126,  *)
(* and a vid of family VNSE3 for any numeric firmware version.             *)
(***************************************************************************)
C21_NewerFamiliesAsClaimed ==
  (IsGateCall /\ ~ Falsy(probe.vid) /\ ~ Falsy(probe.firmwareVersion)
     /\ parseFloatFloor(probe.firmwareVersion) # NoNumber) =>
    /\ startsWith(toUpperCase(probe.vid), <<"H", "M", "I">>)
         => (probe.result <=> parseFloatFloor(probe.firmwareVersion) >= 126)
    /\ startsWith(toUpperCase(probe.vid), <<"V", "N", "S", "E", "3">>)
         => probe.result

\* ---------------------------------------------------------------------
\* The identifier derivation of topic.ts on text: CommonHelper.cq with
\* HexUtil.textForRand, StreamUtil.e and CodeUtil.e.  Text is a sequence of
\* one-character strings, bytes are numbers 0..255.
\* ---------------------------------------------------------------------

\* The characters with codes 32 to 95, in order.
Ascii ==
  <<" ", "!", "\"", "#", "$", "%", "&", "'", "(", ")", "*", "+",
    ",", "-", ".", "/", "0", "1", "2", "3", "4", "5", "6", "7",
    "8", "9", ":", ";", "<", "=", ">", "?", "@", "A", "B", "C",
    "D", "E", "F", "G", "H", "I", "J", "K", "L", "M", "N", "O",
    "P", "Q", "R", "S", "T", "U", "V", "W", "X", "Y", "Z", "[",
    "\\", "]", "^", "_">>

SHA256_K ==
  <<<<17034, 12184>>, <<28983, 17553>>, <<46528, 64463>>, <<59829, 56229>>,
    <<14678, 49755>>, <<23025, 4593>>, <<37439, 33444>>, <<43804, 24277>>,
    <<55303, 43672>>, <<4739, 23297>>, <<9265, 34238>>, <<21772, 32195>>,
    <<29374, 23924>>, <<32990, 45566>>, <<39900, 1703>>, <<49563, 61812>>,
    <<58523, 27073>>, <<61374, 18310>>, <<4033, 40390>>, <<9228, 41420>>,
    <<11753, 11375>>, <<19060, 33962>>, <<23728, 43484>>, <<30457, 35034>>,
    <<38974, 20818>>, <<43057, 50797>>, <<45059, 10184>>, <<48985, 32711>>,
    <<50912, 3059>>, <<54695, 37191>>, <<1738, 25425>>, <<5161, 10599>>,
    <<10167, 2693>>, <<11803, 8504>>, <<19756, 28156>>, <<21304, 3347>>,
    <<25866, 29524>>, <<30314, 2747>>, <<33218, 51502>>, <<37490, 11397>>,
    <<41663, 59553>>, <<43034, 26187>>, <<49739, 35696>>, <<51052, 20899>>,
    <<53650, 59417>>, <<54937, 1572>>, <<62478, 13701>>, <<4202, 41072>>,
    <<6564, 49430>>, <<7735, 27656>>, <<10056, 30540>>, <<13488, 48309>>,
    <<14620, 3251>>, <<20184, 43594>>, <<23452, 51791>>, <<26670, 28659>>,
    <<29839, 33518>>, <<30885, 25455>>, <<33992, 30740>>, <<36039, 520>>,
    <<37054, 65530>>, <<42064, 27883>>, <<48889, 41975>>, <<50801, 30962>>>>

hashState0 ==
  <<<<27145, 58983>>, <<47975, 44677>>, <<15470, 62322>>, <<42319, 62778>>,
    <<20750, 21119>>, <<39685, 26764>>, <<8067, 55723>>, <<23520, 52505>>>>

\* charCodeAt(0) of a printable ASCII character
charCodeAt(c) ==
  IF \E i \in 1..Len(LowerCase) : LowerCase[i] = c
    THEN 96 + (CHOOSE i \in 1..Len(LowerCase) : LowerCase[i] = c)
  ELSE 31 + (CHOOSE i \in 1..Len(Ascii) : Ascii[i] = c)

\* The array <<f[from], ..., f[to]>>, each element computed once; the range
\* is halved only to keep the evaluation shallow.
RECURSIVE arraySlice(_, _, _)
arraySlice(f, from, to) ==
  IF from > to THEN <<>>
  ELSE IF from = to THEN <<f[from]>>
  ELSE arraySlice(f, from, (from + to) \div 2)
         \o arraySlice(f, ((from + to) \div 2) + 1, to)

\* Array.from({ length: n }, ...): the array <<f[1], ..., f[n]>>
arrayFrom(f, n) == arraySlice(f, 1, n)

\* new TextEncoder().encode(str), for ASCII text
encode(str) ==
  arrayFrom([i \in 1..Len(str) |-> charCodeAt(str[i])], Len(str))

HexDigits ==
  <<"0", "1", "2", "3", "4", "5", "6", "7", "8", "9", "a", "b", "c", "d",
    "e", "f">>

\* byte.toString(16).padStart(2, "0")
toHex2(byte) == <<HexDigits[(byte \div 16) + 1], HexDigits[(byte % 16) + 1]>>

\* The concatenation of parts[from], ..., parts[to].
RECURSIVE joinSlice(_, _, _)
joinSlice(parts, from, to) ==
  IF from > to THEN <<>>
  ELSE IF from = to THEN parts[from]
  ELSE joinSlice(parts, from, (from + to) \div 2)
         \o joinSlice(parts, ((from + to) \div 2) + 1, to)

\* parts.join(""): the concatenation of a sequence of texts
join(parts) == joinSlice(parts, 1, Len(parts))

\* bytes to hex text
bytesToHex(bytes) == join([i \in 1..Len(bytes) |-> toHex2(bytes[i])])

\* Bit k of a non-negative number.
bit(x, k) == (x \div 2 ^ k) % 2

\* Bitwise ^ and & of two numbers below 2^4.
xor4(x, y) ==
  ((bit(x, 0) + bit(y, 0)) % 2) + 2 * ((bit(x, 1) + bit(y, 1)) % 2)
    + 4 * ((bit(x, 2) + bit(y, 2)) % 2) + 8 * ((bit(x, 3) + bit(y, 3)) % 2)

and4(x, y) ==
  bit(x, 0) * bit(y, 0) + 2 * bit(x, 1) * bit(y, 1)
    + 4 * bit(x, 2) * bit(y, 2) + 8 * bit(x, 3) * bit(y, 3)

\* Bitwise ^ and & of two non-negative numbers below 2^16.
xorBits(x, y) ==
  xor4(x % 16, y % 16) + 16 * xor4((x \div 16) % 16, (y \div 16) % 16)
    + 256 * xor4((x \div 256) % 16, (y \div 256) % 16)
    + 4096 * xor4(x \div 4096, y \div 4096)

andBits(x, y) ==
  and4(x % 16, y % 16) + 16 * and4((x \div 16) % 16, (y \div 16) % 16)
    + 256 * and4((x \div 256) % 16, (y \div 256) % 16)
    + 4096 * and4(x \div 4096, y \div 4096)

\* 32-bit unsigned words are pairs <<high 16 bits, low 16 bits>>.
xor32(x, y) == <<xorBits(x[1], y[1]), xorBits(x[2], y[2])>>

and32(x, y) == <<andBits(x[1], y[1]), andBits(x[2], y[2])>>

\* ~x
not32(x) == <<65535 - x[1], 65535 - x[2]>>

\* CodeUtil.#add32: (a + b) >>> 0
add32(x, y) ==
  <<(x[1] + y[1] + ((x[2] + y[2]) \div 65536)) % 65536,
    (x[2] + y[2]) % 65536>>

\* #add32 applied from left to right to the one to five words of ws: their
\* sum modulo 2^32.
sum32(ws) ==
  LET hi(k) == IF k <= Len(ws) THEN ws[k][1] ELSE 0
      lo(k) == IF k <= Len(ws) THEN ws[k][2] ELSE 0
      low == lo(1) + lo(2) + lo(3) + lo(4) + lo(5)
  IN <<(hi(1) + hi(2) + hi(3) + hi(4) + hi(5) + (low \div 65536)) % 65536,
       low % 65536>>

\* x >>> n for 0 < n < 32
shr32(x, n) ==
  IF n >= 16 THEN <<0, x[1] \div 2 ^ (n - 16)>>
  ELSE <<x[1] \div 2 ^ n,
         (x[2] \div 2 ^ n) + (x[1] % 2 ^ n) * 2 ^ (16 - n)>>

\* CodeUtil.#rotr: ((x >>> n) | (x << (32 - n))) >>> 0
rotr(x, n) ==
  LET y == IF n >= 16 THEN <<x[2], x[1]>> ELSE x
      m == IF n >= 16 THEN n - 16 ELSE n
  IN <<(y[1] \div 2 ^ m) + (y[2] % 2 ^ m) * 2 ^ (16 - m),
       (y[2] \div 2 ^ m) + (y[1] % 2 ^ m) * 2 ^ (16 - m)>>

\* One iteration of the loop "for (let i = 16; i < 64; i++)" of
\* #processChunk: the word w[i] for i = Len(w).
scheduleWord(w) ==
  LET i == Len(w)
      s0 == xor32(xor32(rotr(w[i - 15 + 1], 7), rotr(w[i - 15 + 1], 18)),
                  shr32(w[i - 15 + 1], 3))
      s1 == xor32(xor32(rotr(w[i - 2 + 1], 17), rotr(w[i - 2 + 1], 19)),
                  shr32(w[i - 2 + 1], 10))
  IN sum32(<<w[i - 16 + 1], s0, w[i - 7 + 1], s1>>)

\* The iterations of that loop, in order, that extend w to `to` words; the
\* range is halved only to keep the evaluation shallow.
RECURSIVE schedule(_, _)
schedule(w, to) ==
  IF Len(w) >= to THEN w
  ELSE IF Len(w) + 1 = to THEN Append(w, scheduleWord(w))
  ELSE schedule(schedule(w, (Len(w) + to) \div 2), to)

\* One round i of the main compression loop of #processChunk; v holds the
\* working variables <<a, b, c, d, e, f, g, h>>.
round(v, w, i) ==
  LET s1 == xor32(xor32(rotr(v[5], 6), rotr(v[5], 11)), rotr(v[5], 25))
      ch == xor32(and32(v[5], v[6]), and32(not32(v[5]), v[7]))
      temp1 == sum32(<<v[8], s1, ch, SHA256_K[i + 1], w[i + 1]>>)
      s0 == xor32(xor32(rotr(v[1], 2), rotr(v[1], 13)), rotr(v[1], 22))
      maj == xor32(xor32(and32(v[1], v[2]), and32(v[1], v[3])),
                   and32(v[2], v[3]))
      temp2 == add32(s0, maj)
  IN <<add32(temp1, temp2), v[1], v[2], v[3],
       add32(v[4], temp1), v[5], v[6], v[7]>>

\* The rounds from, ..., to - 1 of that loop, in order; the range is halved
\* only to keep the evaluation shallow.
RECURSIVE compress(_, _, _, _)
compress(v, w, from, to) ==
  IF Len(v) # 8 \/ Len(w) < to \/ from >= to THEN v
  ELSE IF from + 1 = to THEN round(v, w, from)
  ELSE compress(compress(v, w, from, (from + to) \div 2), w,
                (from + to) \div 2, to)

\* CodeUtil.#processChunk(hashState, chunk): the new hash state
processChunk(hashState, chunk) ==
  LET w16 == arrayFrom([i \in 1..16 |->
                          <<chunk[4 * i - 3] * 256 + chunk[4 * i - 2],
                            chunk[4 * i - 1] * 256 + chunk[4 * i]>>], 16)
      v == compress(hashState, schedule(w16, 64), 0, 64)
  IN <<add32(hashState[1], v[1]), add32(hashState[2], v[2]),
       add32(hashState[3], v[3]), add32(hashState[4], v[4]),
       add32(hashState[5], v[5]), add32(hashState[6], v[6]),
       add32(hashState[7], v[7]), add32(hashState[8], v[8])>>

\* CodeUtil.#padData(data)
padData(data) ==
  LET originalLengthInBytes == Len(data)
      lowBits == originalLengthInBytes * 8
      paddingLength == (56 - ((originalLengthInBytes + 1) % 64) + 64) % 64
  IN data \o <<128>> \o [i \in 1..paddingLength |-> 0]
       \o <<0, 0, 0, 0>>
       \o <<lowBits \div 16777216, (lowBits \div 65536) % 256,
            (lowBits \div 256) % 256, lowBits % 256>>

\* The loop of CodeUtil.e over the 64-byte chunks from offset i on.
RECURSIVE processChunks(_, _, _)
processChunks(hashState, paddedMessage, i) ==
  IF Len(hashState) # 8 \/ i >= Len(paddedMessage) THEN hashState
  ELSE processChunks(
         processChunk(hashState, SubSeq(paddedMessage, i + 1, i + 64)),
         paddedMessage, i + 64)

charset ==
  <<"0", "1", "2", "3", "4", "5", "6", "7", "8", "9", "A", "B", "C", "D",
    "E", "F", "G", "H", "I", "J", "K", "L", "M", "N", "O", "P", "Q", "R",
    "S", "T", "U", "V", "W", "X", "Y", "Z", "a", "b", "c", "d", "e", "f",
    "g", "h", "i", "j", "k", "l", "m", "n", "o", "p", "q", "r", "s", "t",
    "u", "v", "w", "x", "y", "z">>

\* CodeUtil.#bytesToCustomEncoding(bytes)
bytesToCustomEncoding(bytes) ==
  join([i \in 1..Len(bytes) |->
          <<charset[(bytes[i] % 62) + 1],
            charset[((bytes[i] * 31) % 62) + 1]>>])

\* (word >> shift) & 0xff for shift = 8 * byteIndexInWord, byteIndexInWord < 3
byteOfWord(word, byteIndexInWord) ==
  IF byteIndexInWord = 0 THEN word[2] % 256
  ELSE IF byteIndexInWord = 1 THEN word[2] \div 256
  ELSE word[1] % 256

\* CodeUtil.e(input): the 48-character encoding of the hash
CodeUtil_e(input) ==
  LET hashState == processChunks(hashState0, padData(encode(input)), 0)
      finalHashBytes ==
        arrayFrom([i \in 1..24 |->
                     byteOfWord(hashState[((i - 1) % 8) + 1],
                                (i - 1) \div 8)], 24)
  IN IF Len(hashState) # 8 THEN <<>>
     ELSE bytesToCustomEncoding(finalHashBytes)

\* seed = (seed * 31 + keyByte) % 2147483647, computed without exceeding
\* 2^31: with seed = sh * 2^16 + sl and sh * 31 = a1 * 2^15 + a0 the value
\* is a1 * 2^31 + a0 * 2^16 + (sl * 31 + keyByte), and 2^31 = 1 modulo
\* 2147483647.
nextSeed(seed, keyByte) ==
  LET a == (seed \div 65536) * 31
      r == (a % 32768) * 65536
      s == (a \div 32768) + (seed % 65536) * 31 + keyByte
  IN IF r >= 2147483647 - s THEN r - (2147483647 - s) ELSE r + s

RECURSIVE seedOf(_, _)
seedOf(keyBytes, n) ==
  IF n = 0 THEN 0 ELSE nextSeed(seedOf(keyBytes, n - 1), keyBytes[n])

\* state = (state * 1664525 + 1013904223) % 4294967296 on a word;
\* 1664525 = 25 * 2^16 + 26125 and 1013904223 = 15470 * 2^16 + 62303.
nextState(state) ==
  LET low == state[2] * 26125
      cross == (state[1] * 26125 + state[2] * 25) % 65536
  IN add32(<<(cross + low \div 65536) % 65536, low % 65536>>,
           <<15470, 62303>>)

\* StreamUtil.#generateKeyStream: the stream of `length` bytes after `state`
RECURSIVE keyStreamFrom(_, _)
keyStreamFrom(state, length) ==
  IF length = 0 THEN <<>>
  ELSE LET next == nextState(state)
       IN <<xorBits(next[2] % 256, next[1] % 256)>>
            \o keyStreamFrom(next, length - 1)

generateKeyStream(key, length) ==
  LET seed == seedOf(encode(key), Len(key))
  IN keyStreamFrom(<<seed \div 65536, seed % 65536>>, length)

\* StreamUtil.e(data, key): the hex text, or the throw for an empty key
StreamUtil_e(data, key) ==
  IF Len(key) = 0 THEN [throws |-> TRUE, value |-> <<>>]
  ELSE
    LET keyStream == generateKeyStream(key, Len(data))
        dataBytes == encode(data)
    IN [throws |-> FALSE,
        value |-> join([i \in 1..Len(dataBytes) |->
                          toHex2(xorBits(
                            dataBytes[i],
                            keyStream[((i - 1) % Len(keyStream)) + 1]))])]

\* The loop of HexUtil._buildPermutation from index i on.
RECURSIVE permute(_, _, _, _)
permute(p, key, j, i) ==
  IF i >= Len(p) THEN p
  ELSE LET j2 == (j + p[i + 1] + key[(i % Len(key)) + 1]) % Len(p)
       IN permute([p EXCEPT ![i + 1] = p[j2 + 1], ![j2 + 1] = p[i + 1]],
                  key, j2, i + 1)

\* HexUtil._buildPermutation(key, size)
buildPermutation(key, size) ==
  LET p == arrayFrom([i \in 1..size |-> i - 1], size)
  IN IF size <= 1 THEN p ELSE permute(p, key, 0, 0)

\* HexUtil.scramble(data, key): result[i] = data[p[i]]
scramble(data, key) ==
  IF Len(data) = 0 THEN <<>>
  ELSE LET p == buildPermutation(key, Len(data))
       IN arrayFrom([i \in 1..Len(data) |-> data[p[i] + 1]], Len(data))

\* HexUtil.unscramble(data, key): result[p[i]] = data[i]
unscramble(data, key) ==
  IF Len(data) = 0 THEN <<>>
  ELSE LET p == buildPermutation(key, Len(data))
       IN arrayFrom([r \in 1..Len(data) |->
                       data[CHOOSE i \in 1..Len(data) : p[i] = r - 1]],
                    Len(data))

RECURSIVE scrambleTimes(_, _, _)
scrambleTimes(data, key, n) ==
  IF n = 0 THEN data ELSE scrambleTimes(scramble(data, key), key, n - 1)

RECURSIVE unscrambleTimes(_, _, _)
unscrambleTimes(data, key, n) ==
  IF n = 0 THEN data ELSE unscrambleTimes(unscramble(data, key), key, n - 1)

\* HexUtil.textForRand(content, mac)
textForRand(content, mac) ==
  IF Len(content) = 0 \/ Len(mac) = 0 THEN <<>>
  ELSE
    LET bytes == encode(content)
        macBytes == encode(mac)
        N == ((bytes[Len(bytes)] % 5) + 5) % 5
    IN bytesToHex(unscrambleTimes(scrambleTimes(bytes, macBytes, N * 2),
                                  macBytes, IF N > 1 THEN N ELSE 1))

\* A derivation that keeps the whole 48-character encoding.
CommonHelper_cqUnsliced(salt, mac, vid) ==
  IF Len(mac) < 4 THEN [throws |-> FALSE, value |-> <<>>]
  ELSE
    LET var1 == vid \o <<"_">> \o SubSeq(mac, 1, Len(mac) - 4)
        sub2 == SubSeq(mac, 2, Len(mac) - 2)
        var2 == sub2 \o <<"_">> \o vid
        h1 == textForRand(salt, var1)
        h2 == StreamUtil_e(vid \o mac, var2)
    IN IF h2.throws THEN [throws |-> TRUE, value |-> <<>>]
       ELSE [throws |-> FALSE, value |-> CodeUtil_e(h1 \o h2.value)]

\* CommonHelper.cq(salt, mac, vid) as text: the identifier, or the throw of
\* StreamUtil.e.
CommonHelper_cq(salt, mac, vid) ==
  IF Len(mac) < 4 THEN [throws |-> FALSE, value |-> <<>>]
  ELSE
    LET var1 == vid \o <<"_">> \o SubSeq(mac, 1, Len(mac) - 4)
        sub2 == SubSeq(mac, 2, Len(mac) - 2)
        var2 == sub2 \o <<"_">> \o vid
        h1 == textForRand(salt, var1)
        h2 == StreamUtil_e(vid \o mac, var2)
    IN IF h2.throws THEN [throws |-> TRUE, value |-> <<>>]
       ELSE [throws |-> FALSE,
             value |-> SubSeq(CodeUtil_e(h1 \o h2.value), 1, 24)]

\* Arguments of the calls of cq: the first two vectors of the repository's
\* tests, short salts, an empty salt, an empty vid and MACs of length 0, 3
\* and 4.
CqSalts ==
  {<<>>, <<"s", "1">>,
   <<"a", "b", "c", "1", "2", "3", "d", "e", "f", "4", "5", "6", "7", "8",
     "9", "a">>,
   <<"f", "e", "d", "c", "b", "a", "9", "8", "7", "6", "5", "4", "3", "2",
     "1", "0">>}

CqMacs ==
  {<<>>, <<"a", "b", "c">>, <<"a", "b", "c", "d">>,
   <<"1", "1", "2", "2", "3", "3", "4", "4", "5", "5", "6", "6">>,
   <<"a", "a", "b", "b", "c", "c", "d", "d", "e", "e", "f", "f">>}

CqVids == {<<>>, <<"H", "M", "G", "-", "5", "0">>, <<"H", "M", "A", "-", "1">>}

\* A call cq(salt, mac, vid).
CallCq ==
  /\ boot.pc = "idle"
  /\ probe = NoProbe
  /\ \E salt \in CqSalts : \E mac \in CqMacs : \E vid \in CqVids :
       probe' = [fn |-> "cq", salt |-> salt, mac |-> mac, vid |-> vid,
                 calls |-> <<CommonHelper_cq(salt, mac, vid)>>]
  /\ UNCHANGED <<fwdVars, conn, boot, api>>

\* A second call with the arguments of the first.
CallCqAgain ==
  /\ probe.fn = "cq"
  /\ Len(probe.calls) = 1
  /\ probe' = [probe EXCEPT
                 !.calls = Append(@, CommonHelper_cq(probe.salt, probe.mac,
                                                     probe.vid))]
  /\ UNCHANGED <<fwdVars, conn, boot, api>>

NextCq ==
  \/ CallCq
  \/ CallCqAgain

SpecCq == InitBoot /\ [][NextCq]_vars

\* ---------------------------------------------------------------------
\* C22: cq is deterministic in (salt, mac, vid): a second call with the
\* same arguments gives the output of the first; the output has at most 24
\* characters, exactly 24 characters of 0-9A-Za-z when the MAC has at least
\* 4 characters and the empty string when it has fewer; no call throws,
\* also for an empty salt or an empty vid.
\* ---------------------------------------------------------------------
ClaimAlphabet ==
  {Digits[i] : i \in 1..Len(Digits)} \cup {UpperCase[i] : i \in 1..Len(UpperCase)}
    \cup {LowerCase[i] : i \in 1..Len(LowerCase)}

ClaimSelectable(type) ==
  \E t \in {<<"H", "M", "A">>, <<"H", "M", "F">>, <<"H", "M", "K">>,
             <<"H", "M", "J">>} :
    /\ Len(type) >= 3
    /\ toUpperCase(SubSeq(type, 1, 3)) = t

\* id is one of the trimmed, non-empty entries of the comma-separated str.
ClaimListed(id, str) ==
  /\ str # NoString
  /\ id # <<>>
  /\ \E i \in 1..Len(str) : \E j \in i..Len(str) :
       /\ i = 1 \/ str[i - 1] = ","
       /\ j = Len(str) \/ str[j + 1] = ","
       /\ \A k \in i..j : str[k] # ","
       /\ trim(SubSeq(str, i, j)) = id

C23_AutomaticDirection ==
  boot.pc = "flip" =>
    \A k \in 1..Len(boot.config.devices) :
      boot.config.devices[k].inverse_forwarding =
        IF ClaimSelectable(boot.config.devices[k].type)
          THEN IF ClaimListed(boot.config.devices[k].device_id,
                              boot.config.inverse_forwarding_device_ids)
                 THEN "true" ELSE "false"
        ELSE "true"

\* The loop ran on a listed HMA device, an unlisted HMA device and a device
\* of another family.
C23_Witness ==
  /\ boot.pc = "flip"
  /\ boot.config.inverse_forwarding_device_ids # NoString
  /\ \E k \in 1..Len(boot.config.devices) :
       /\ ClaimSelectable(boot.config.devices[k].type)
       /\ boot.config.devices[k].device_id = Repeat("5", 12)
       /\ boot.config.devices[k].inverse_forwarding = "true"
  /\ \E k \in 1..Len(boot.config.devices) :
       /\ ClaimSelectable(boot.config.devices[k].type)
       /\ boot.config.devices[k].inverse_forwarding = "false"

\* ---------------------------------------------------------------------
\* C24: the direction a forwarder uses for a device (the device's flag, or
\* the flag of the forwarder's configuration when the device has none) is,
\* when the global inverse_forwarding flag is true, the negation of the
\* direction the device has with the flag false, and equals that direction
\* otherwise: the flip is applied once.
\* ---------------------------------------------------------------------
\* The direction of a device with the global flag false (C23).
ClaimDirection(device, cfg) ==
  IF ClaimSelectable(device.type)
    THEN ClaimListed(device.device_id, cfg.inverse_forwarding_device_ids)
  ELSE TRUE

C24_GlobalFlip ==
  boot.pc = "running" =>
    \A k \in 1..Len(boot.forwarders) :
      \A j \in 1..Len(boot.forwarders[k].devices) :
        Truthy(Coalesce(boot.forwarders[k].devices[j].inverse_forwarding,
                        boot.forwarders[k].inverse_forwarding))
          <=> IF boot.config.inverse_forwarding = "true"
                THEN ~ ClaimDirection(boot.forwarders[k].devices[j],
                                      boot.config)
              ELSE ClaimDirection(boot.forwarders[k].devices[j], boot.config)

\* With the global flag true a forwarder was built for a device of a
\* family that is inverse on its own, and for a listed HMA device.
C24_Witness ==
  /\ boot.pc = "running"
  /\ boot.config.inverse_forwarding = "true"
  /\ \E k \in 1..Len(boot.forwarders) :
       /\ boot.forwarders[k].inverse_forwarding = "true"
       /\ \E j \in 1..Len(boot.forwarders[k].devices) :
            /\ ~ ClaimSelectable(boot.forwarders[k].devices[j].type)
            /\ boot.forwarders[k].devices[j].inverse_forwarding = "false"
  /\ \E k \in 1..Len(boot.forwarders) :
       \E j \in 1..Len(boot.forwarders[k].devices) :
         /\ ClaimListed(boot.forwarders[k].devices[j].device_id,
                        boot.config.inverse_forwarding_device_ids)
         /\ boot.forwarders[k].devices[j].inverse_forwarding = "false"

(***************************************************************************)
(* The running process: the sessions of the forwarders start() built, the  *)
(* health server (health.ts) and the SIGINT handler (main.ts).  conn holds *)
(* the sessions, the health server and the calls the handler made; probe   *)
(* holds the last HTTP response.                                           *)
(***************************************************************************)
\* The configuration and the device lists the running process is built from.
ServeConfigs ==
  {cfg \in MainConfigs :
     /\ cfg.username # Undefined
     /\ cfg.inverse_forwarding = Undefined
     /\ cfg.default_broker_id = Undefined
     /\ cfg.inverse_forwarding_device_ids = NoString}

ServeResults ==
  {[throws |-> FALSE, data |-> q] :
     q \in {<<RawHMA>>, <<RawJPLS>>, <<RawHMA, RawHMG>>, <<RawHMG, RawJPLS>>,
            <<RawBadId>>}}

StartServe ==
  /\ boot.pc = "idle"
  /\ probe = NoProbe
  /\ \E cfg \in ServeConfigs :
       boot' = Loaded(cfg, <<Broker2024, Broker2025, Broker2026>>)
  /\ UNCHANGED <<fwdVars, conn, api, probe>>

FetchServe ==
  /\ boot.pc = "fetch"
  /\ \E result \in ServeResults : boot' = fetched(boot, result)
  /\ UNCHANGED <<fwdVars, conn, api, probe>>

\* The two sessions of every forwarder, not yet connected.
sessions(b) ==
  [k \in 1..Len(b.forwarders) |->
     [c \in Brokers |-> [connected |-> FALSE, ended |-> FALSE]]]

\* healthServer.addBroker(id, fw.getRemoteBroker()) for every forwarder, then
\* addBroker("local", forwarders[0].getConfigBroker()): the client each id
\* of the health server names.
healthBrokers(b) ==
  [id \in {b.forwarders[k].broker_id : k \in 1..Len(b.forwarders)}
            \cup (IF Len(b.forwarders) > 0 THEN {"local"} ELSE {}) |->
     IF id = "local" THEN [forwarder |-> 1, client |-> configBroker]
     ELSE [forwarder |->
             CHOOSE k \in 1..Len(b.forwarders) :
               /\ b.forwarders[k].broker_id = id
               /\ \A j \in 1..Len(b.forwarders) :
                    b.forwarders[j].broker_id = id => j <= k,
           client |-> remoteBroker]]

\* new HealthServer() and the loop that builds the forwarders.
served(b) ==
  [forwarders |-> sessions(b),
   health |-> [listening |-> TRUE, brokers |-> healthBrokers(b)],
   calls |-> <<>>]

ConstructServe ==
  /\ boot.pc = "construct"
  /\ boot' = construct(boot)
  /\ conn' = served(construct(boot))
  /\ UNCHANGED <<fwdVars, api, probe>>

\* A session connects or loses its connection (client.connected).
SessionChange ==
  /\ boot.pc = "running"
  /\ \E k \in 1..Len(conn.forwarders) : \E c \in Brokers :
       conn' = [conn EXCEPT !.forwarders[k][c].connected = ~ @]
  /\ UNCHANGED <<fwdVars, boot, api, probe>>

\* Requests the health server receives.
Requests ==
  {[url |-> u, method |-> m] :
     u \in {"/health", "/", "/health?x=1"}, m \in {"GET", "POST"}}

\* A health server that would answer 503 while a session is down.
handleRequestStrict(server, req) ==
  IF req.url = "/health" /\ req.method = "GET"
  THEN [fn |-> "handleRequest", req |-> req,
        statusCode |->
          IF \A id \in DOMAIN server.health.brokers :
               server.forwarders[server.health.brokers[id].forwarder]
                 [server.health.brokers[id].client].connected
          THEN 200 ELSE 503,
        body |-> [status |-> "ok",
                  brokers |->
                    [id \in DOMAIN server.health.brokers |->
                       server.forwarders[server.health.brokers[id].forwarder]
                         [server.health.brokers[id].client].connected],
                  timestamp |-> now]]
  ELSE [fn |-> "handleRequest", req |-> req, statusCode |-> 404,
        body |-> Undefined]

\* HealthServer.handleRequest(req, res): the response written.
handleRequest(server, req) ==
  IF req.url = "/health" /\ req.method = "GET"
  THEN [fn |-> "handleRequest", req |-> req, statusCode |-> 200,
        body |-> [status |-> "ok",
                  brokers |->
                    [id \in DOMAIN server.health.brokers |->
                       server.forwarders[server.health.brokers[id].forwarder]
                         [server.health.brokers[id].client].connected],
                  timestamp |-> now]]
  ELSE [fn |-> "handleRequest", req |-> req, statusCode |-> 404,
        body |-> Undefined]

HandleRequest ==
  /\ boot.pc = "running"
  /\ conn.health.listening
  /\ \E req \in Requests : probe' = handleRequest(conn, req)
  /\ UNCHANGED <<fwdVars, conn, boot, api>>

\* MQTTForwarder.close() of forwarder k: configBroker.end(), then
\* remoteBroker.end().
close(server, k) ==
  [server EXCEPT
     !.forwarders[k] =
        [c \in Brokers |-> [server.forwarders[k][c] EXCEPT !.ended = TRUE]],
     !.calls = @ \o <<[call |-> "end", forwarder |-> k, client |-> configBroker],
                       [call |-> "end", forwarder |-> k,
                        client |-> remoteBroker]>>]

\* forwarders.forEach((f) => f.close()) from forwarder k on.
RECURSIVE closeFrom(_, _)
closeFrom(server, k) ==
  IF k > Len(server.forwarders) THEN server
  ELSE closeFrom(close(server, k), k + 1)

\* A handler that would close the first forwarder only.
sigintFirstOnly(server) ==
  [close(server, 1) EXCEPT
     !.health.listening = FALSE,
     !.calls = @ \o <<[call |-> "close", forwarder |-> 0,
                       client |-> "healthServer"],
                      [call |-> "exit", forwarder |-> 0, client |-> "process"]>>]

\* The SIGINT handler: every forwarder is closed, then the health server,
\* then process.exit(0).
sigint(server) ==
  [closeFrom(server, 1) EXCEPT
     !.health.listening = FALSE,
     !.calls = @ \o <<[call |-> "close", forwarder |-> 0,
                       client |-> "healthServer"],
                      [call |-> "exit", forwarder |-> 0, client |-> "process"]>>]

Sigint ==
  /\ boot.pc = "running"
  /\ conn' = sigint(conn)
  /\ boot' = [boot EXCEPT !.pc = "exited", !.exitCode = 0]
  /\ UNCHANGED <<fwdVars, api, probe>>

NextServe ==
  \/ StartServe \/ CheckCredentials \/ FetchServe \/ ApplyInverse
  \/ GlobalFlip \/ AutoSelect \/ Validate \/ Bind \/ ConstructServe
  \/ SessionChange \/ HandleRequest \/ Sigint

SpecServe == InitBoot /\ [][NextServe]_vars

\* ---------------------------------------------------------------------
\* C25: on SIGINT after a successful startup close() is called on every
\* forwarder, ending its local and its cloud session, then the health
\* server is closed, then the process exits with code 0; no forwarder is
\* left unclosed at the exit.
\* ---------------------------------------------------------------------
C25_Shutdown ==
  (boot.pc = "exited" /\ boot.exitCode = 0) =>
    /\ Len(conn.calls) = 2 * Len(boot.forwarders) + 2
    /\ \A k \in 1..Len(boot.forwarders) :
         /\ \A c \in Brokers : conn.forwarders[k][c].ended
         /\ \E i \in 1..(2 * Len(boot.forwarders)) :
              conn.calls[i] = [call |-> "end", forwarder |-> k,
                               client |-> configBroker]
         /\ \E i \in 1..(2 * Len(boot.forwarders)) :
              conn.calls[i] = [call |-> "end", forwarder |-> k,
                               client |-> remoteBroker]
    /\ conn.calls[2 * Len(boot.forwarders) + 1].call = "close"
    /\ conn.calls[2 * Len(boot.forwarders) + 1].client = "healthServer"
    /\ ~ conn.health.listening
    /\ conn.calls[2 * Len(boot.forwarders) + 2].call = "exit"

\* The handler ran while two forwarders were up.
C25_Witness ==
  /\ boot.pc = "exited"
  /\ boot.exitCode = 0
  /\ Len(boot.forwarders) = 2
  /\ Len(conn.calls) = 6

\* ---------------------------------------------------------------------
\* C27: GET /health always answers 200 with status "ok", one boolean per
\* registered cloud broker id equal to the current connected state of that
\* forwarder's cloud session, and a "local" boolean for the local session
\* of the first forwarder; every other request answers 404.  The status
\* code does not depend on any connection state.  (The server compares the
\* whole request target, so a target with a query string is another path.)
\* ---------------------------------------------------------------------
ClaimHealthBody(body) ==
  /\ body.status = "ok"
  /\ DOMAIN body.brokers =
       {boot.forwarders[k].broker_id : k \in 1..Len(boot.forwarders)}
         \cup {"local"}
  /\ \A k \in 1..Len(boot.forwarders) :
       body.brokers[boot.forwarders[k].broker_id] =
         conn.forwarders[k][remoteBroker].connected
  /\ body.brokers["local"] = conn.forwarders[1][configBroker].connected

C27_HealthEndpoint ==
  [][(boot.pc = "running" /\ boot' = boot /\ conn' = conn) =>
       IF probe'.req = [url |-> "/health", method |-> "GET"]
       THEN probe'.statusCode = 200 /\ ClaimHealthBody(probe'.body)
       ELSE probe'.statusCode = 404]_vars

\* GET /health was answered while the cloud session of the second forwarder
\* was down and the one of the first was up.
C27_Witness ==
  /\ boot.pc = "running"
  /\ probe # NoProbe
  /\ probe.req = [url |-> "/health", method |-> "GET"]
  /\ probe.statusCode = 200
  /\ Len(boot.forwarders) = 2
  /\ probe.body.brokers[boot.forwarders[1].broker_id]
  /\ ~ probe.body.brokers[boot.forwarders[2].broker_id]
  /\ conn.forwarders[1][remoteBroker].connected
  /\ ~ conn.forwarders[2][remoteBroker].connected

(***************************************************************************)
(* cleanupMessageHistory.  mqtt_forwarder.ts defines the sweep but no      *)
(* timer or handler calls it, so the forwarder of Spec never sweeps.  The  *)
(* forwarder of SpecSweep runs the sweep at arbitrary moments (the earlier *)
(* revision called it from a 30 s timer) next to a forwarder that never    *)
(* sweeps, kept in probe, which receives the same messages.                *)
(***************************************************************************)
MESSAGE_CACHE_TIMEOUT == 1000
\* The period of the timer of the earlier revision.
SWEEP_INTERVAL == 30000

\* A sweep that would remove every entry that is not of this instant.
cleanupEager(map, timeout, t) ==
  [k \in {k \in DOMAIN map : ~ (t - map[k] > 0)} |-> map[k]]

\* One loop of cleanupMessageHistory: the entries with
\* now - timestamp > timeout * 2 are deleted.
cleanup(map, timeout, t) ==
  [k \in {k \in DOMAIN map : ~ (t - map[k] > timeout * 2)} |-> map[k]]

\* cleanupMessageHistory(), run to its end.
cleanupMessageHistory ==
  /\ appMessageHistory' =
       cleanup(appMessageHistory, MESSAGE_HISTORY_TIMEOUT, now)
  /\ rateLimitedMessages' =
       cleanup(rateLimitedMessages, RATE_LIMIT_INTERVAL, now)
  /\ processedMessages' =
       cleanup(processedMessages, MESSAGE_CACHE_TIMEOUT, now)

Sweep ==
  /\ cleanupMessageHistory
  /\ UNCHANGED <<config, INSTANCE_ID, now, subscriptions, published, last,
                 responses, nrecv, conn, boot, api, probe>>

\* The forwarder that never sweeps, after the same message: the maps and
\* the publish() calls forwardMessage leaves.
neverSwept(s, topic, message, targetClient, packet) ==
  LET sourceClient == otherBroker(targetClient)
      idx == matchedDevice(config, topic, sourceClient)
      device == config.devices[idx]
      isDevice == topic[3] = "device"
      inverseForwarding ==
        Truthy(Coalesce(device.inverse_forwarding, config.inverse_forwarding))
      key == deviceKey(device)
      target == getTopicStructureForDevice(config, device, targetClient)
      newTopic == newTopicOf(target, topic)
      call == publishCall(targetClient, newTopic, message, key)
  IN IF isMessageProcessed(packet) THEN s
     ELSE IF idx = 0 THEN s
     ELSE IF directionRejects(targetClient, isDevice, inverseForwarding) THEN s
     ELSE IF isDevice
       THEN IF gateRejects(s.appMessageHistory, key, now) THEN s
            ELSE [s EXCEPT
                    !.appMessageHistory = historyAfterDevice(@, key),
                    !.published = issue(@, call)]
     ELSE IF limiterApplies(targetClient)
       THEN [s EXCEPT
               !.appMessageHistory = historyAfterApp(@, key, now),
               !.rateLimitedMessages =
                  rateLimitedAfter(@, message, key, now),
               !.published =
                  IF shouldRateLimit(s.rateLimitedMessages, message, key, now)
                  THEN @ ELSE issue(@, call)]
     ELSE [s EXCEPT
             !.appMessageHistory = historyAfterApp(@, key, now),
             !.published = issue(@, call)]

InitSweep ==
  /\ \E c \in Constructions :
       /\ c.config.inverse_forwarding # Undefined
       /\ config = c.config
       /\ INSTANCE_ID = c.id
  /\ now = StartTime
  /\ appMessageHistory = EmptyMap
  /\ rateLimitedMessages = EmptyMap
  /\ processedMessages = EmptyMap
  /\ subscriptions = [b \in Brokers |-> setupSubscriptions(config, b)]
  /\ published = <<>>
  /\ last = NoMessage
  /\ responses = EmptyMap
  /\ nrecv = 0
  /\ conn = ConnAfterSetup
  /\ boot = BootIdle
  /\ api = ApiIdle
  /\ probe = [fn |-> "neverSwept", appMessageHistory |-> EmptyMap,
              rateLimitedMessages |-> EmptyMap, published |-> <<>>]

\* A message is delivered to both forwarders.
ReceiveBoth ==
  \E source \in Brokers :
    \E topic \in TopicsOn(config, source) :
      \E message \in Payloads :
        \E packet \in Packets :
          /\ forwardMessage(topic, message, otherBroker(source), packet)
          /\ probe' = neverSwept(probe, topic, message, otherBroker(source),
                                 packet)
          /\ UNCHANGED <<conn, boot, api>>

\* The instants of SpecSweep: the start, past the doubled history window
\* (within the rate limit interval) and past the doubled rate limit
\* interval.
SweepClockPoints ==
  {StartTime,
   StartTime + 2 * MESSAGE_HISTORY_TIMEOUT + 1,
   StartTime + 2 * RATE_LIMIT_INTERVAL + 1}

TickSweep ==
  /\ \E t \in SweepClockPoints : t > now /\ now' = t
  /\ UNCHANGED <<config, INSTANCE_ID, appMessageHistory, rateLimitedMessages,
                 processedMessages, subscriptions, published, last,
                 responses, nrecv, conn, boot, api, probe>>

NextSweep == ReceiveBoth \/ TickSweep \/ Sweep

SpecSweep == InitSweep /\ [][NextSweep]_vars

\* ---------------------------------------------------------------------
\* C26: while a forwarder runs, a sweep executes every 30 s and removes
\* every entry of appMessageHistory, rateLimitedMessages and
\* processedMessages older than twice its window, so no entry older than
\* twice its window plus one sweep period is left in a map.
\* ---------------------------------------------------------------------
C26_StaleEntriesRemoved ==
  /\ \A k \in DOMAIN appMessageHistory :
       now - appMessageHistory[k]
         <= 2 * MESSAGE_HISTORY_TIMEOUT + SWEEP_INTERVAL
  /\ \A k \in DOMAIN rateLimitedMessages :
       now - rateLimitedMessages[k] <= 2 * RATE_LIMIT_INTERVAL + SWEEP_INTERVAL
  /\ \A k \in DOMAIN processedMessages :
       now - processedMessages[k] <= 2 * MESSAGE_CACHE_TIMEOUT + SWEEP_INTERVAL

\* ---------------------------------------------------------------------
\* C30: a forwarder that runs the sweep at arbitrary moments and one that
\* never runs it publish the same messages in the same order, whatever
\* messages arrive and whenever.
\* ---------------------------------------------------------------------
C30_SweepTransparent == published = probe.published

\* The sweep has removed an entry the other forwarder still holds, and both
\* forwarders have published a message after that.
C30_Witness ==
  /\ DOMAIN rateLimitedMessages # DOMAIN probe.rateLimitedMessages
  /\ DOMAIN appMessageHistory # DOMAIN probe.appMessageHistory
  /\ Len(published) >= 2
  /\ published[Len(published)].at > StartTime + 2 * MESSAGE_HISTORY_TIMEOUT

\* ---------------------------------------------------------------------
\* C29: every App-role message that passes loop rejection, device match
\* and direction policy sets appMessageHistory[deviceKey] to the current
\* time, also when the rate limiter then suppresses it; the limiter is
\* consulted (a message suppressed, rateLimitedMessages written) only when
\* the target is the cloud broker.
\* ---------------------------------------------------------------------
C29_AppBookkeeping ==
  [][(/\ nrecv' = nrecv + 1
      /\ last'.topic[3] = "App"
      /\ last'.outcome \notin {"loop", "no-match", "direction"}) =>
       /\ last'.outcome \in {"forwarded", "rate-limited"}
       /\ Has(appMessageHistory', deviceKey(config.devices[last'.device]))
       /\ appMessageHistory'[deviceKey(config.devices[last'.device])] = now
       /\ last'.outcome = "rate-limited" => last'.source = configBroker
       /\ last'.source = remoteBroker =>
            rateLimitedMessages' = rateLimitedMessages]_vars

\* An App message was suppressed by the limiter after the clock had
\* advanced, and its time is in appMessageHistory.
C29_Witness ==
  /\ last.outcome = "rate-limited"
  /\ last.device # 0
  /\ now > StartTime
  /\ Has(appMessageHistory, deviceKey(config.devices[last.device]))
  /\ appMessageHistory[deviceKey(config.devices[last.device])] = now
  /\ published # <<>>
  /\ published[Len(published)].at < now

(***************************************************************************)
(* fetchDeviceToken (hame_api.ts): the check of the parsed response body.  *)
(* A message is the sequence of the parts of its template literal.         *)
(***************************************************************************)
\* Bodies the token endpoint may answer with: { code, msg, token }.
TokenResponses ==
  {[code |-> c, msg |-> m, token |-> t] :
     c \in {"2", "3", "4", "0", "1", "5", "02", Undefined},
     m \in {"ok", "mailbox is not registered", "password error", Undefined},
     t \in {"", "tok", "0", Undefined}}

\* A check that would look at the code only.
checkTokenCodeOnly(data) ==
  IF data.code # "2"
  THEN [throws |-> TRUE,
        message |-> <<"Unexpected API response code: ", data.code, " - ",
                      data.msg>>,
        value |-> Undefined]
  ELSE [throws |-> FALSE, message |-> <<>>, value |-> data]

\* if (data.code !== "2" || !data.token) throw new Error(...); return data
checkToken(data) ==
  IF data.code # "2" \/ data.token = Undefined \/ data.token = ""
  THEN [throws |-> TRUE,
        message |-> <<"Unexpected API response code: ", data.code, " - ",
                      data.msg>>,
        value |-> Undefined]
  ELSE [throws |-> FALSE, message |-> <<>>, value |-> data]

\* One request of fetchDeviceToken answered with a JSON body.
FetchDeviceToken ==
  /\ boot.pc = "idle"
  /\ \E data \in TokenResponses :
       probe' = [fn |-> "fetchDeviceToken", data |-> data,
                 outcome |-> checkToken(data)]
  /\ UNCHANGED <<fwdVars, conn, boot, api>>

NextToken == FetchDeviceToken

SpecToken == InitBoot /\ [][NextToken]_vars

\* The failure classes of the claim, as the error messages that name them.
ClaimFailure(code) ==
  IF code = "3" THEN "Email not registered with Hame"
  ELSE IF code = "4" THEN "Incorrect password"
  ELSE "Unknown API response code: "

ClaimSucceeds(data) ==
  data.code = "2" /\ data.token # Undefined /\ data.token # ""

\* ---------------------------------------------------------------------
\* C28, as stated: the token call succeeds exactly when the response code
\* is "2" and the token is non-empty; otherwise the failure is classified
\* as email-not-registered for code "3", wrong-password for code "4" and
\* unknown for any other code.
\* ---------------------------------------------------------------------
C28_TokenClassified ==
  probe.fn = "fetchDeviceToken" =>
    /\ probe.outcome.throws <=> ~ ClaimSucceeds(probe.data)
    /\ probe.outcome.throws =>
         probe.outcome.message[1] = ClaimFailure(probe.data.code)

\* ---------------------------------------------------------------------
\* C28, amended: the token call succeeds, returning the body, exactly when
\* the response code is "2" and the token is non-empty; every other body
\* fails with the same error, "Unexpected API response code: <code> -
\* <msg>", whatever the code: codes "3" and "4" are not told apart from
\* other codes.
\* ---------------------------------------------------------------------
C28_TokenOutcome ==
  probe.fn = "fetchDeviceToken" =>
    /\ probe.outcome.throws <=> ~ ClaimSucceeds(probe.data)
    /\ ~ probe.outcome.throws => probe.outcome.value = probe.data
    /\ probe.outcome.throws =>
         probe.outcome.message =
           <<"Unexpected API response code: ", probe.data.code, " - ",
             probe.data.msg>>

\* The endpoint answered code "3": the call failed.
C28_Witness ==
  /\ probe.fn = "fetchDeviceToken"
  /\ probe.data.code = "3"
  /\ probe.outcome.throws

(***************************************************************************)
(* The rate limiter on its own: a forwarder with two inverse-mode devices  *)
(* receives App messages on the local connection whose payloads carry the  *)
(* code in several spellings.                                              *)
(***************************************************************************)
LimitConfig ==
  [devices |-> <<DeviceG, DeviceA>>, inverse_forwarding |-> "true",
   remote |-> [topic_prefix |-> Undefined, local_topic_prefix |-> Undefined]]

LimitPayloads ==
  { <<"c", "d", "=", "1">>,
    <<"c", "d", "=", "0", "0", "0", "1">>,
    <<"c", "d", "=", "1", "0">>,
    <<"c", "d", "=", "1", "3", ",", "c", "d", "=", "1">>,
    <<"a", "c", "d", "=", "2", ",", "c", "d", "=", "1">>,
    <<"c", "d", "=", ",", "p", "=", "1">> }

InitLimit ==
  /\ config = LimitConfig
  /\ INSTANCE_ID = "a1b2c3d4"
  /\ now = StartTime
  /\ appMessageHistory = EmptyMap
  /\ rateLimitedMessages = EmptyMap
  /\ processedMessages = EmptyMap
  /\ subscriptions = [b \in Brokers |-> setupSubscriptions(config, b)]
  /\ published = <<>>
  /\ last = NoMessage
  /\ responses = EmptyMap
  /\ nrecv = 0
  /\ conn = ConnAfterSetup
  /\ boot = BootIdle
  /\ api = ApiIdle
  /\ probe = NoProbe

\* An App message of one of the devices is delivered on the local
\* connection.
ReceiveLimit ==
  \E i \in 1..Len(config.devices) :
    \E message \in LimitPayloads :
      LET here == getTopicStructureForDevice(config, config.devices[i],
                                             configBroker)
      IN /\ forwardMessage(Topic(here.prefix, config.devices[i].type, "App",
                                 here.identifier),
                           message, remoteBroker, [relayInstanceId |-> NoRelay])
         /\ UNCHANGED <<conn, boot, api, probe>>

\* The instants of SpecLimit: the start, the last instant inside the rate
\* limit interval and the first one past it.
LimitClockPoints ==
  {StartTime, StartTime + RATE_LIMIT_INTERVAL - 1,
   StartTime + RATE_LIMIT_INTERVAL}

TickLimit ==
  /\ \E t \in LimitClockPoints : t > now /\ now' = t
  /\ UNCHANGED <<config, INSTANCE_ID, appMessageHistory, rateLimitedMessages,
                 processedMessages, subscriptions, published, last,
                 responses, nrecv, conn, boot, api, probe>>

NextLimit == ReceiveLimit \/ TickLimit

SpecLimit == InitLimit /\ [][NextLimit]_vars

\* The code of a payload in the claim's words: the decimal value of the
\* whole run of digits after the first "cd=" that a digit follows; -1 when
\* there is none.
ClaimCode(str) ==
  IF ~ \E i \in 1..(Len(str) - 3) :
         SubSeq(str, i, i + 2) = <<"c", "d", "=">> /\ IsDigit(str[i + 3])
  THEN -1
  ELSE
    LET i == CHOOSE k \in 1..(Len(str) - 3) :
               /\ SubSeq(str, k, k + 2) = <<"c", "d", "=">>
               /\ IsDigit(str[k + 3])
               /\ \A j \in 1..(k - 1) :
                    ~ (SubSeq(str, j, j + 2) = <<"c", "d", "=">>
                       /\ IsDigit(str[j + 3]))
        run == CHOOSE n \in 1..(Len(str) - i - 2) :
                 /\ \A j \in 1..n : IsDigit(str[i + 2 + j])
                 /\ (i + 2 + n = Len(str) \/ ~ IsDigit(str[i + 3 + n]))
    IN parseInt(SubSeq(str, i + 3, i + 2 + run))

\* ---------------------------------------------------------------------
\* C31: the limiter classifies a payload by the decimal value of its first
\* "cd=<digits>" occurrence, leading zeros ignored.  A payload without the
\* pattern or with a code outside {1,13,15,16,21,26,28,30} is never
\* suppressed and never changes rateLimitedMessages.  A payload with a
\* listed code is suppressed exactly when the entry of (its device, its
\* code) is younger than the interval, and changes no other entry, so
\* other codes and other devices never limit it.
\* ---------------------------------------------------------------------
C31_RateLimitKey ==
  [][(nrecv' = nrecv + 1
      /\ last'.outcome \in {"forwarded", "rate-limited"}) =>
       LET code == ClaimCode(last'.message)
           k == <<deviceKey(config.devices[last'.device]), code>>
       IN IF code \notin RATE_LIMITED_CODES
          THEN /\ last'.outcome = "forwarded"
               /\ rateLimitedMessages' = rateLimitedMessages
          ELSE /\ last'.outcome = "rate-limited" <=>
                    (Has(rateLimitedMessages, k)
                     /\ now - rateLimitedMessages[k] < RATE_LIMIT_INTERVAL)
               /\ DOMAIN rateLimitedMessages' =
                    DOMAIN rateLimitedMessages \cup {k}
               /\ \A j \in DOMAIN rateLimitedMessages \ {k} :
                    rateLimitedMessages'[j] = rateLimitedMessages[j]]_vars

\* "cd=1" was forwarded, then "cd=10" of the same device was forwarded and
\* "cd=0001" of that device was suppressed.
C31_Witness ==
  /\ last.outcome = "rate-limited"
  /\ last.message = <<"c", "d", "=", "0", "0", "0", "1">>
  /\ Len(published) = 2
  /\ published[1].message = <<"c", "d", "=", "1">>
  /\ published[2].message = <<"c", "d", "=", "1", "0">>
  /\ published[1].deviceKey = deviceKey(config.devices[last.device])
  /\ published[2].deviceKey = published[1].deviceKey

(***************************************************************************)
(* One forwarder with a direct and an inverse-mode device, receiving on    *)
(* both connections messages of both devices, messages that match no       *)
(* device and messages carrying its own relay tag.                         *)
(***************************************************************************)
InitIso ==
  /\ \E c \in Constructions :
       /\ c.config.inverse_forwarding # Undefined
       /\ config = c.config
       /\ INSTANCE_ID = c.id
  /\ now = StartTime
  /\ appMessageHistory = EmptyMap
  /\ rateLimitedMessages = EmptyMap
  /\ processedMessages = EmptyMap
  /\ subscriptions = [b \in Brokers |-> setupSubscriptions(config, b)]
  /\ published = <<>>
  /\ last = NoMessage
  /\ responses = EmptyMap
  /\ nrecv = 0
  /\ conn = ConnAfterSetup
  /\ boot = BootIdle
  /\ api = ApiIdle
  /\ probe = NoProbe

ReceiveIso ==
  \E source \in Brokers :
    \E topic \in TopicsOn(config, source) :
      \E message \in Payloads :
        \E packet \in {[relayInstanceId |-> NoRelay],
                        [relayInstanceId |-> RelayString(INSTANCE_ID)]} :
          /\ forwardMessage(topic, message, otherBroker(source), packet)
          /\ UNCHANGED <<conn, boot, api, probe>>

NextIso == ReceiveIso \/ Tick

SpecIso == InitIso /\ [][NextIso]_vars

\* Whether a forwarder with the maps h and r publishes the message when it
\* is handled now.
wouldForward(h, r, topic, message, targetClient, packet) ==
  neverSwept([appMessageHistory |-> h, rateLimitedMessages |-> r,
              published |-> <<>>],
             topic, message, targetClient, packet).published # <<>>

\* The topics of device j on the connection `broker`, in both roles.
TopicsOf(j, broker) ==
  LET d == config.devices[j]
      here == getTopicStructureForDevice(config, d, broker)
  IN {Topic(here.prefix, d.type, role, here.identifier) :
        role \in {"device", "App"}}

\* ---------------------------------------------------------------------
\* C32: handling a message for device A (forwarded, dropped, or matching
\* no device) never changes the appMessageHistory or rateLimitedMessages
\* entries of another device B of the forwarder, never publishes on a
\* topic of B, and never changes whether a message of B handled next is
\* forwarded; after a drop the forwarder handles the next message.
\* ---------------------------------------------------------------------
C32_DeviceIsolation ==
  [][nrecv' = nrecv + 1 =>
       \A j \in 1..Len(config.devices) :
         j # last'.device =>
           LET kb == deviceKey(config.devices[j])
           IN /\ Has(appMessageHistory', kb) <=> Has(appMessageHistory, kb)
              /\ Has(appMessageHistory, kb) =>
                   appMessageHistory'[kb] = appMessageHistory[kb]
              /\ \A k \in DOMAIN rateLimitedMessages
                           \cup DOMAIN rateLimitedMessages' :
                   k[1] = kb =>
                     /\ Has(rateLimitedMessages, k)
                     /\ Has(rateLimitedMessages', k)
                     /\ rateLimitedMessages'[k] = rateLimitedMessages[k]
              /\ published' # published =>
                   \A b \in Brokers :
                     published'[Len(published')].topic \notin TopicsOf(j, b)
              /\ (appMessageHistory' # appMessageHistory
                  \/ rateLimitedMessages' # rateLimitedMessages) =>
                 \A source \in Brokers :
                   \A topic \in TopicsOf(j, source) :
                     \A message \in Payloads :
                       wouldForward(appMessageHistory', rateLimitedMessages',
                                    topic, message, otherBroker(source),
                                    [relayInstanceId |-> NoRelay])
                       <=> wouldForward(appMessageHistory, rateLimitedMessages,
                                        topic, message, otherBroker(source),
                                        [relayInstanceId |-> NoRelay])]_vars

\* A message of one device was dropped by the direction policy, then an App
\* message of the other device was forwarded while the first device is
\* waiting for its answer.
C32_Witness ==
  /\ nrecv = 3
  /\ last.outcome = "forwarded"
  /\ last.device # 0
  /\ Len(published) = 2
  /\ published[1].deviceKey # published[2].deviceKey
  /\ published[1].recv = 1
  /\ published[2].recv = 3
  /\ Has(appMessageHistory, published[1].deviceKey)
  /\ Has(appMessageHistory, published[2].deviceKey)

(***************************************************************************)
(* The two "message" listeners of one forwarder under the event loop.      *)
(* Delivered messages wait in the loop's queue; a listener call runs       *)
(* forwardMessage, which has no await, statement by statement to its       *)
(* return before the loop starts the next call.  probe holds the queue,    *)
(* the running call with its locals, the number of delivered messages and  *)
(* a forwarder that handles each message whole at the moment its call      *)
(* starts.  The clock is read once per call.                               *)
(***************************************************************************)
\* A variant of the loop that would start a second call while one is running
\* (as it would across an await).
mayBeginOverlapping(running) == Len(running) < 2

\* The event loop starts a listener call only when none is running.
mayBegin(running) == running = <<>>

InitAtomic ==
  /\ \E c \in Constructions :
       /\ c.config.inverse_forwarding # Undefined
       /\ config = c.config
       /\ INSTANCE_ID = c.id
  /\ now = StartTime
  /\ appMessageHistory = EmptyMap
  /\ rateLimitedMessages = EmptyMap
  /\ processedMessages = EmptyMap
  /\ subscriptions = [b \in Brokers |-> setupSubscriptions(config, b)]
  /\ published = <<>>
  /\ last = NoMessage
  /\ responses = EmptyMap
  /\ nrecv = 0
  /\ conn = ConnAfterSetup
  /\ boot = BootIdle
  /\ api = ApiIdle
  /\ probe = [fn |-> "eventLoop", queue |-> <<>>, running |-> <<>>,
              delivered |-> 0,
              whole |-> [appMessageHistory |-> EmptyMap,
                         rateLimitedMessages |-> EmptyMap,
                         published |-> <<>>]]

\* The frame of a listener call: the arguments of forwardMessage, the
\* statement it is at and its locals.
Frame(event) ==
  [topic |-> event.topic, message |-> event.message,
   targetClient |-> event.targetClient, packet |-> event.packet,
   pc |-> "loop", idx |-> 0]

atomicVars ==
  <<config, INSTANCE_ID, subscriptions, last, conn, boot, api>>

\* A message arrives on one of the two connections: the topics the
\* forwarder subscribed to there.
Deliver ==
  /\ probe.delivered < MaxMsgs
  /\ \E source \in Brokers :
       \E k \in 1..Len(subscriptions[source]) :
         \E message \in Payloads :
           \E packet \in {[relayInstanceId |-> NoRelay],
                           [relayInstanceId |-> RelayString(INSTANCE_ID)]} :
             probe' = [probe EXCEPT
                         !.delivered = @ + 1,
                         !.queue = Append(@, [topic |-> subscriptions[source][k],
                                              message |-> message,
                                              targetClient |-> otherBroker(source),
                                              packet |-> packet])]
  /\ UNCHANGED <<atomicVars, now, appMessageHistory, rateLimitedMessages,
                 processedMessages, published, responses, nrecv>>

\* The loop calls the listener of the oldest waiting message.
Begin ==
  /\ probe.queue # <<>>
  /\ mayBegin(probe.running)
  /\ probe' = [probe EXCEPT
                 !.queue = Tail(@),
                 !.running = Append(@, Frame(Head(probe.queue))),
                 !.whole = neverSwept(@, Head(probe.queue).topic,
                                      Head(probe.queue).message,
                                      Head(probe.queue).targetClient,
                                      Head(probe.queue).packet)]
  /\ UNCHANGED <<atomicVars, now, appMessageHistory, rateLimitedMessages,
                 processedMessages, published, responses, nrecv>>

\* if (packet && this.isMessageProcessed(packet)) return;
CheckLoop ==
  \E f \in 1..Len(probe.running) :
    /\ probe.running[f].pc = "loop"
    /\ probe' = [probe EXCEPT
                   !.running[f].pc =
                      IF isMessageProcessed(probe.running[f].packet)
                      THEN "return" ELSE "match"]
    /\ UNCHANGED <<atomicVars, now, appMessageHistory, rateLimitedMessages,
                   processedMessages, published, responses, nrecv>>

\* The loop over the devices, the check of matchedDevice and the direction
\* policy.
MatchDevice ==
  \E f \in 1..Len(probe.running) :
    LET fr == probe.running[f]
        idx == matchedDevice(config, fr.topic, otherBroker(fr.targetClient))
        device == config.devices[idx]
    IN /\ fr.pc = "match"
       /\ probe' = [probe EXCEPT
                      !.running[f].idx = idx,
                      !.running[f].pc =
                         IF idx = 0 THEN "return"
                         ELSE IF directionRejects(
                                   fr.targetClient, fr.topic[3] = "device",
                                   Truthy(Coalesce(device.inverse_forwarding,
                                                   config.inverse_forwarding)))
                           THEN "return"
                         ELSE IF fr.topic[3] = "device" THEN "lookup"
                         ELSE "update"]
       /\ UNCHANGED <<atomicVars, now, appMessageHistory, rateLimitedMessages,
                      processedMessages, published, responses, nrecv>>

\* const lastAppMessageTime = this.appMessageHistory.get(deviceKey) and the
\* test of the gate.
Lookup ==
  \E f \in 1..Len(probe.running) :
    LET fr == probe.running[f]
        key == deviceKey(config.devices[fr.idx])
    IN /\ fr.pc = "lookup"
       /\ probe' = [probe EXCEPT
                      !.running[f].pc =
                         IF gateRejects(appMessageHistory, key, now)
                         THEN "return" ELSE "update"]
       /\ UNCHANGED <<atomicVars, now, appMessageHistory, rateLimitedMessages,
                      processedMessages, published, responses, nrecv>>

\* this.appMessageHistory.delete(deviceKey) for a device message,
\* this.appMessageHistory.set(deviceKey, Date.now()) for an App message.
Update ==
  \E f \in 1..Len(probe.running) :
    LET fr == probe.running[f]
        key == deviceKey(config.devices[fr.idx])
        isDevice == fr.topic[3] = "device"
    IN /\ fr.pc = "update"
       /\ appMessageHistory' =
            IF isDevice THEN historyAfterDevice(appMessageHistory, key)
            ELSE historyAfterApp(appMessageHistory, key, now)
       /\ responses' =
            MapSet(responses, key,
                   IF ~ isDevice THEN 0
                   ELSE IF Has(responses, key) THEN responses[key] + 1 ELSE 1)
       /\ probe' = [probe EXCEPT
                      !.running[f].pc =
                         IF ~ isDevice /\ fr.targetClient = remoteBroker
                         THEN "limit" ELSE "publish"]
       /\ UNCHANGED <<atomicVars, now, rateLimitedMessages,
                      processedMessages, published, nrecv>>

\* this.shouldRateLimit(message, deviceKey)
Limit ==
  \E f \in 1..Len(probe.running) :
    LET fr == probe.running[f]
        key == deviceKey(config.devices[fr.idx])
    IN /\ fr.pc = "limit"
       /\ rateLimitedMessages' =
            rateLimitedAfter(rateLimitedMessages, fr.message, key, now)
       /\ probe' = [probe EXCEPT
                      !.running[f].pc =
                         IF shouldRateLimit(rateLimitedMessages, fr.message,
                                            key, now)
                         THEN "return" ELSE "publish"]
       /\ UNCHANGED <<atomicVars, now, appMessageHistory, processedMessages,
                      published, responses, nrecv>>

\* targetClient.publish(newTopic, message, publishOptions)
Publish ==
  \E f \in 1..Len(probe.running) :
    LET fr == probe.running[f]
        device == config.devices[fr.idx]
        target == getTopicStructureForDevice(config, device, fr.targetClient)
        newTopic == Topic(target.prefix, fr.topic[2],
                          IF fr.topic[3] = "device" THEN "device" ELSE "App",
                          target.identifier)
    IN /\ fr.pc = "publish"
       /\ published' =
            issue(published, publishCall(fr.targetClient, newTopic, fr.message,
                                         deviceKey(device)))
       /\ probe' = [probe EXCEPT !.running[f].pc = "return"]
       /\ UNCHANGED <<atomicVars, now, appMessageHistory, rateLimitedMessages,
                      processedMessages, responses, nrecv>>

\* The listener call returns to the loop.
Return ==
  \E f \in 1..Len(probe.running) :
    /\ probe.running[f].pc = "return"
    /\ probe' = [probe EXCEPT
                   !.running = SubSeq(@, 1, f - 1) \o SubSeq(@, f + 1, Len(@))]
    /\ nrecv' = nrecv + 1
    /\ UNCHANGED <<atomicVars, now, appMessageHistory, rateLimitedMessages,
                   processedMessages, published, responses>>

\* Time passes between two listener calls.
TickAtomic ==
  /\ probe.running = <<>>
  /\ \E t \in {StartTime + MESSAGE_HISTORY_TIMEOUT + 1,
                StartTime + RATE_LIMIT_INTERVAL} : t > now /\ now' = t
  /\ UNCHANGED <<atomicVars, appMessageHistory, rateLimitedMessages,
                 processedMessages, published, responses, nrecv, probe>>

NextAtomic ==
  \/ Deliver \/ Begin \/ CheckLoop \/ MatchDevice \/ Lookup \/ Update
  \/ Limit \/ Publish \/ Return \/ TickAtomic

SpecAtomic == InitAtomic /\ [][NextAtomic]_vars

\* ---------------------------------------------------------------------
\* C33: whenever no listener call is running, the maps and the list of
\* publishes equal those of handling the messages whole, one after another
\* in the order their calls started; at no moment has a device answer
\* been forwarded twice for one App request, and no two publishes of one
\* rate-limited code of one device are closer than the interval.
\* ---------------------------------------------------------------------
C33_HandlerAtomicity ==
  /\ probe.running = <<>> =>
       /\ appMessageHistory = probe.whole.appMessageHistory
       /\ rateLimitedMessages = probe.whole.rateLimitedMessages
       /\ published = probe.whole.published
  /\ \A k \in DOMAIN responses : responses[k] <= 1
  /\ \A i \in 1..Len(published) : \A j \in 1..Len(published) :
       (/\ i < j
        /\ published[i].client = remoteBroker
        /\ published[j].client = remoteBroker
        /\ published[i].topic[3] = "App"
        /\ published[j].topic[3] = "App"
        /\ published[i].deviceKey = published[j].deviceKey
        /\ isRateLimitedCode(published[i].message)
        /\ codeOf(published[i].message) = codeOf(published[j].message))
       => published[j].at - published[i].at >= RATE_LIMIT_INTERVAL

\* Three messages were handled within one instant: an App request was
\* forwarded, one device answer to it was forwarded and the third message
\* was not.
C33_Witness ==
  /\ probe.running = <<>>
  /\ probe.queue = <<>>
  /\ nrecv = 3
  /\ Len(published) = 2
  /\ published[1].topic[3] = "App"
  /\ published[2].topic[3] = "device"
  /\ published[2].deviceKey = published[1].deviceKey
  /\ published[2].recv = 2
  /\ now = StartTime

(***************************************************************************)
(* Local-side mirroring on its own: the step of start() that decides       *)
(* use_remote_topic_id for one device, and the topics the forwarder then   *)
(* uses for it on the local connection.                                    *)
(***************************************************************************)
MirrorDevices ==
  {[device_id |-> Repeat("1", 12), mac |-> GoodMac, type |-> t,
    name |-> "B2500", version |-> v, salt |-> NoString,
    inverse_forwarding |-> inv, broker_id |-> "hame-2025",
    remote_id |-> <<"r", "i", "d">>, use_remote_topic_id |-> u] :
     t \in {<<"H", "M", "A", "-", "1">>, <<"H", "M", "A", "-", "1", "-", "x">>,
            <<"H", "M", "A">>, <<"H", "M", "B", "-", "1">>,
            <<"J", "P", "L", "S", "-", "8", "H">>},
     v \in {NoNumber, 229, 230, 136},
     inv \in {"true", "false"},
     u \in {Undefined, "true", "false"}}

MirrorBrokers ==
  {[min_versions |-> NoVersions, topic_encryption_key |-> Undefined,
    use_remote_topic_id_versions |-> m,
    topic_prefix |-> pre.remote, local_topic_prefix |-> pre.local] :
     m \in {NoVersions, <<"H", "M", "A">> :> {230},
            (<<"H", "M", "A">> :> {229, 230})
              @@ (<<"J", "P", "L", "S">> :> {136})},
     pre \in {[remote |-> Undefined, local |-> Undefined],
              [remote |-> "marstek_energy/", local |-> Undefined],
              [remote |-> "marstek_energy/", local |-> "hame_energy/"]}}

\* The step of start() for one device, a forwarder built for it, its
\* subscription on the local connection, the device that subscription's
\* topic matches and the topic of a publish toward the local connection.
CallMirror ==
  /\ boot.pc = "idle"
  /\ probe = NoProbe
  /\ \E device \in MirrorDevices : \E broker \in MirrorBrokers :
       LET d == mirror(device, broker)
           cfg == [devices |-> <<d>>, inverse_forwarding |-> Undefined,
                   remote |-> [topic_prefix |-> broker.topic_prefix,
                               local_topic_prefix |->
                                 broker.local_topic_prefix]]
           sub == subscriptionTopic(cfg, d, configBroker)
           target == getTopicStructureForDevice(cfg, d, configBroker)
       IN probe' = [fn |-> "mirror", device |-> device, broker |-> broker,
                    result |-> d, subscribed |-> sub,
                    matched |-> matchedDevice(cfg, sub, configBroker),
                    published |->
                      Topic(target.prefix, d.type,
                            IF sub[3] = "device" THEN "App" ELSE "device",
                            target.identifier)]
  /\ UNCHANGED <<fwdVars, conn, boot, api>>

NextMirror == CallMirror

SpecMirror == InitBoot /\ [][NextMirror]_vars

\* The claim's condition: the table of the broker has an entry for the
\* family the type starts with, and the entry contains the version.
ClaimMirrorListed(device, broker) ==
  /\ device.version # NoNumber
  /\ \E family \in DOMAIN broker.use_remote_topic_id_versions :
       /\ Len(device.type) > Len(family) + 1
       /\ SubSeq(device.type, 1, Len(family) + 1) = family \o <<"-">>
       /\ \A k \in (Len(family) + 2)..Len(device.type) :
            device.type[k] # "-"
       /\ device.version \in broker.use_remote_topic_id_versions[family]

\* ---------------------------------------------------------------------
\* C34: a device whose use_remote_topic_id is not set gets it set to true
\* exactly when the broker's use_remote_topic_id_versions[family] contains
\* its firmware version; a set value is kept.  With mirroring on, the
\* local side subscribes, matches and publishes with the broker's
\* topic_prefix and the device's remote_id, otherwise with
\* local_topic_prefix (else topic_prefix) and the mac; an absent prefix is
\* "hame_energy/".
\* ---------------------------------------------------------------------
C34_LocalMirroring ==
  probe.fn = "mirror" =>
    LET on == probe.result.use_remote_topic_id = "true"
        prefix ==
          IF on
          THEN IF probe.broker.topic_prefix # Undefined
               THEN probe.broker.topic_prefix ELSE "hame_energy/"
          ELSE IF probe.broker.local_topic_prefix # Undefined
               THEN probe.broker.local_topic_prefix
          ELSE IF probe.broker.topic_prefix # Undefined
               THEN probe.broker.topic_prefix
          ELSE "hame_energy/"
        identifier == IF on THEN probe.device.remote_id ELSE probe.device.mac
    IN /\ probe.device.use_remote_topic_id # Undefined =>
            probe.result.use_remote_topic_id
              = probe.device.use_remote_topic_id
       /\ probe.device.use_remote_topic_id = Undefined =>
            probe.result.use_remote_topic_id =
              IF ClaimMirrorListed(probe.device, probe.broker)
              THEN "true" ELSE Undefined
       /\ probe.subscribed[1] = prefix
       /\ probe.subscribed[4] = identifier
       /\ probe.matched = 1
       /\ probe.published[1] = prefix
       /\ probe.published[4] = identifier

\* A device without a setting whose family and version are listed was
\* switched to mirroring and is addressed on the local side by the
\* broker's prefix and its remote id.
C34_Witness ==
  /\ probe.fn = "mirror"
  /\ probe.device.use_remote_topic_id = Undefined
  /\ probe.result.use_remote_topic_id = "true"
  /\ probe.broker.local_topic_prefix = "hame_energy/"
  /\ probe.subscribed[1] = "marstek_energy/"
  /\ probe.subscribed[4] = <<"r", "i", "d">>

\* ---------------------------------------------------------------------
\* C35: a message dropped by loop rejection, by matching no device or by
\* the direction policy leaves appMessageHistory, rateLimitedMessages and
\* processedMessages unchanged; so does a device-role message dropped by
\* the correlation gate, which does not consume an expired entry.
\* ---------------------------------------------------------------------
C35_DropsLeaveState ==
  [][(nrecv' = nrecv + 1
      /\ last'.outcome \in {"loop", "no-match", "direction",
                             "no-recent-app"}) =>
       /\ appMessageHistory' = appMessageHistory
       /\ rateLimitedMessages' = rateLimitedMessages
       /\ processedMessages' = processedMessages
       /\ published' = published]_vars

\* A device message was dropped by the gate while the entry of its device,
\* expired, is still in the map.
C35_Witness ==
  /\ last.outcome = "no-recent-app"
  /\ last.device # 0
  /\ Has(appMessageHistory, deviceKey(config.devices[last.device]))
  /\ now - appMessageHistory[deviceKey(config.devices[last.device])]
       > MESSAGE_HISTORY_TIMEOUT

(***************************************************************************)
(* Forwarders of every direction and mirroring setting, receiving on each  *)
(* connection exactly the topics they subscribed to there.                 *)
(***************************************************************************)
SubConfigs ==
  {[devices |-> <<[DeviceA EXCEPT !.inverse_forwarding = ia,
                                  !.use_remote_topic_id = ua],
                  [DeviceG EXCEPT !.inverse_forwarding = ig,
                                  !.use_remote_topic_id = ug]>>,
    inverse_forwarding |-> inv,
    remote |-> IF inv = "true"
               THEN [topic_prefix |-> "marstek_energy/",
                     local_topic_prefix |-> "hame_energy/"]
               ELSE [topic_prefix |-> Undefined,
                     local_topic_prefix |-> Undefined]] :
     ia \in {Undefined, "true", "false"}, ua \in {Undefined, "true"},
     ig \in {Undefined, "true", "false"}, ug \in {"true", "false"},
     inv \in {Undefined, "true", "false"}}

InitSub ==
  /\ config \in SubConfigs
  /\ INSTANCE_ID = "a1b2c3d4"
  /\ now = StartTime
  /\ appMessageHistory = EmptyMap
  /\ rateLimitedMessages = EmptyMap
  /\ processedMessages = EmptyMap
  /\ subscriptions = [b \in Brokers |-> setupSubscriptions(config, b)]
  /\ published = <<>>
  /\ last = NoMessage
  /\ responses = EmptyMap
  /\ nrecv = 0
  /\ conn = ConnAfterSetup
  /\ boot = BootIdle
  /\ api = ApiIdle
  /\ probe = NoProbe

\* A broker delivers a message on a topic of the subscription of that
\* connection.
ReceiveSub ==
  \E source \in Brokers :
    \E k \in 1..Len(subscriptions[source]) :
      \E packet \in {[relayInstanceId |-> NoRelay],
                      [relayInstanceId |-> RelayString(INSTANCE_ID)]} :
        /\ forwardMessage(subscriptions[source][k], <<"c", "d", "=", "0", "1">>,
                          otherBroker(source), packet)
        /\ UNCHANGED <<conn, boot, api, probe>>

NextSub == ReceiveSub \/ Tick

SpecSub == InitSub /\ [][NextSub]_vars

\* ---------------------------------------------------------------------
\* C36: a message delivered on exactly the topic the forwarder subscribed
\* to on a side for a device matches that device and is never dropped by
\* the direction policy; it can only be dropped by loop rejection, the
\* correlation gate or the rate limiter.
\* ---------------------------------------------------------------------
C36_SubscriptionAgreesWithPolicy ==
  [][nrecv' = nrecv + 1 =>
       \A k \in 1..Len(config.devices) :
         last'.topic = subscriptions[last'.source][k] =>
           /\ last'.outcome \in {"forwarded", "loop", "no-recent-app",
                                  "rate-limited"}
           /\ last'.outcome # "loop" => last'.device = k]_vars

\* A message on the local subscription of a mirrored device whose direction
\* comes from the forwarder's fallback was forwarded.
C36_Witness ==
  /\ last.outcome = "forwarded"
  /\ last.source = configBroker
  /\ last.device # 0
  /\ last.topic = subscriptions[configBroker][last.device]
  /\ config.devices[last.device].inverse_forwarding = Undefined
  /\ config.devices[last.device].use_remote_topic_id = "true"
  /\ config.inverse_forwarding = "true"

\* ---------------------------------------------------------------------
\* C37: the topic a forwarder publishes on a side carries the role token
\* opposite to the one of the topic it subscribed to on that side for that
\* device, so the published topic is none of the topics the forwarder
\* subscribed to on that side, also when mirroring makes the local and the
\* cloud topic of a device the same text.
\* ---------------------------------------------------------------------
C37_NoSelfDelivery ==
  \A c \in 1..Len(published) :
    /\ \A k \in 1..Len(config.devices) :
         deviceKey(config.devices[k]) = published[c].deviceKey =>
           /\ published[c].topic[3] \in {"device", "App"}
           /\ subscriptions[published[c].client][k][3] \in {"device", "App"}
           /\ published[c].topic[3] # subscriptions[published[c].client][k][3]
    /\ \A j \in 1..Len(config.devices) :
         published[c].topic # subscriptions[published[c].client][j]

\* A message was published on the local connection under the very topic text
\* it arrived with on the cloud connection.
C37_Witness ==
  /\ last.outcome = "forwarded"
  /\ last.source = remoteBroker
  /\ published # <<>>
  /\ published[Len(published)].recv = nrecv
  /\ published[Len(published)].client = configBroker
  /\ published[Len(published)].topic = last.topic

\* ---------------------------------------------------------------------
\* C38: the keys of rateLimitedMessages belong to devices whose effective
\* inverse_forwarding is true, and no message of a device whose effective
\* inverse_forwarding is false is suppressed by the rate limiter.
\* ---------------------------------------------------------------------
effectiveInverse(k) ==
  Truthy(Coalesce(config.devices[k].inverse_forwarding,
                  config.inverse_forwarding))

C38_LimiterInverseOnly ==
  /\ \A rk \in DOMAIN rateLimitedMessages :
       \E k \in 1..Len(config.devices) :
         /\ rk[1] = deviceKey(config.devices[k])
         /\ effectiveInverse(k)
  /\ last # NoMessage /\ last.outcome = "rate-limited" =>
       effectiveInverse(last.device)

\* An App message with a limited code of a device that is not in inverse
\* mode went from cloud to local although the forwarder holds limiter
\* entries of another device.
C38_Witness ==
  /\ last # NoMessage
  /\ last.outcome = "forwarded"
  /\ last.device # 0
  /\ ~ effectiveInverse(last.device)
  /\ last.topic[3] = "App"
  /\ isRateLimitedCode(last.message)
  /\ Len(published) >= 2
  /\ published[Len(published)].message = published[Len(published) - 1].message
  /\ published[Len(published)].deviceKey
       = published[Len(published) - 1].deviceKey
  /\ published[Len(published)].at = published[Len(published) - 1].at
  /\ rateLimitedMessages # EmptyMap

\* ---------------------------------------------------------------------
\* C39: withRetry invokes its operation at most maxRetries + 1 times,
\* returns the result of the first successful invocation without invoking
\* it again, and otherwise throws the error of the last invocation; one
\* fetchDevices call issues at most (outer attempts) x 2 x (inner attempts)
\* requests.
\* ---------------------------------------------------------------------
C39_RetryTermination ==
  [][api' # api =>
       /\ api.pc # "done"
       /\ api'.attempt <= fetchDevicesOptions.maxRetries + 1
       /\ api'.tokenAttempt <= DEFAULT_RETRY_OPTIONS.maxRetries + 1
       /\ api'.listAttempt <= DEFAULT_RETRY_OPTIONS.maxRetries + 1
       /\ api'.requests
            <= (fetchDevicesOptions.maxRetries + 1) * 2
                 * (DEFAULT_RETRY_OPTIONS.maxRetries + 1)
       /\ api.pc # "idle" => api'.requests = api.requests + 1
       /\ (api.pc = "token" /\ api'.pc = "list") =>
            /\ api'.attempt = api.attempt
            /\ api'.tokenAttempt = api.tokenAttempt
            /\ api'.listAttempt = 1
            /\ api'.lastError = api.lastError
       /\ api'.pc = "done" =>
            \/ /\ api.pc = "list"
               /\ api'.result = Success
               /\ api'.lastError = api.lastError
            \/ /\ api'.result \in Failures
               /\ api'.result = api'.lastError]_vars

\* fetchDevices threw after the largest number of requests it can issue.
C39_Witness ==
  /\ api.pc = "done"
  /\ api.result \in Failures
  /\ api.requests = 24
  /\ api.attempt = 3 /\ api.listAttempt = 4

\* ---------------------------------------------------------------------
\* C40: a device-role message that passes the direction policy is
\* forwarded if and only if an entry for its deviceKey exists and now minus
\* the entry is at most 1000 ms.  The entry holds the time of the most
\* recent App-role message accepted for the device (one that passed loop
\* rejection, device match and direction policy) since the last forwarded
\* device message: every accepted App message overwrites it with the
\* current time, a forwarded device message removes it, and nothing else
\* changes it.
\* ---------------------------------------------------------------------
C40_CorrelationWindow ==
  [][nrecv' = nrecv + 1 =>
       LET handled == last'
           passed == handled.outcome \in {"forwarded", "no-recent-app",
                                          "rate-limited"}
           key == deviceKey(config.devices[handled.device])
       IN IF passed /\ handled.topic[3] = "device"
            THEN /\ (handled.outcome = "forwarded") <=>
                      (/\ key \in DOMAIN appMessageHistory
                       /\ now - appMessageHistory[key] <= 1000)
                 /\ handled.outcome = "forwarded" =>
                      /\ key \notin DOMAIN appMessageHistory'
                      /\ \A other \in DOMAIN appMessageHistory \ {key} :
                           /\ other \in DOMAIN appMessageHistory'
                           /\ appMessageHistory'[other]
                                = appMessageHistory[other]
                 /\ handled.outcome # "forwarded" =>
                      appMessageHistory' = appMessageHistory
          ELSE IF passed /\ handled.topic[3] = "App"
            THEN /\ DOMAIN appMessageHistory'
                      = DOMAIN appMessageHistory \cup {key}
                 /\ appMessageHistory'[key] = now
                 /\ \A other \in DOMAIN appMessageHistory \ {key} :
                      appMessageHistory'[other] = appMessageHistory[other]
          ELSE appMessageHistory' = appMessageHistory]_vars

\* Two App messages of a device were forwarded more than 1000 ms apart, and
\* the device message that followed was forwarded although the first of them
\* was older than the window: the window ran from the second.
C40_Witness ==
  /\ Len(published) = 3
  /\ last.outcome = "forwarded"
  /\ last.topic[3] = "device"
  /\ published[3].recv = nrecv
  /\ published[1].deviceKey = published[3].deviceKey
  /\ published[2].deviceKey = published[3].deviceKey
  /\ published[1].topic[3] = "App"
  /\ published[2].topic[3] = "App"
  /\ published[3].at - published[1].at > MESSAGE_HISTORY_TIMEOUT
  /\ published[3].at - published[2].at = MESSAGE_HISTORY_TIMEOUT

====
